---- MODULE Spec2Model ----
(***************************************************************************)
(* Loan ledger engine of bachat_guru_backend                               *)
(* (src/Controllers/loan.controller.js with the Loan schema of             *)
(* src/unnamed/part_003).                                                  *)
(*                                                                         *)
(* Units.  Money is an integer number of cents (the code rounds every      *)
(* stored figure with toFixed(2)).  A date is a day number counted from    *)
(* 2024-01-01 (day 0); the request dates are "YYYY-MM-DD" strings, which   *)
(* new Date() reads as UTC midnight, and the clock is taken at day         *)
(* granularity.  Months are numbered 0..11 as Date.getMonth() does.        *)
(***************************************************************************)
EXTENDS Integers, Sequences, FiniteSets, Bags, TLC

VARIABLES
    loans,   \* the Loan collection: loan id -> stored document
    now,     \* the server clock (day number), what new Date() returns
    resp,    \* the response of the last request handled
    reqs,    \* requests in flight between their findOne and their save, and
             \* the reminder scan in flight between its finds and its saves
    paid,    \* number of on-schedule payments made to each loan since it was created
    writes,  \* number of saves of a loan document so far
    owner,   \* the userId each loan id was created with: loan id -> user
    notifications,  \* the Notification collection, a bag of documents
    expenses,       \* the Expense collection in insertion order: _id -> document
    budgets         \* the Budget collection: budget id -> document

vars == <<loans, now, resp, reqs, paid, writes, owner, notifications, expenses, budgets>>

\* the collections and paths that the loan routes of one user leave alone
rest == <<owner, notifications, expenses, budgets>>

-----------------------------------------------------------------------------
(* Calendar: what the JavaScript Date object computes.                     *)

\* The Gregorian calendar as day arithmetic.  Years are counted from March,
\* so that the leap day is the last day of its year; mp is the month counted
\* from March (0..11), doy the day of that year, doe the day of the 400-year
\* era.  Day 0 of the model, 2024-01-01, is day 19723 from 1970-01-01.
DaysFromShifted(yy, mp, d) ==
    (yy \div 400) * 146097 + (yy % 400) * 365 + (yy % 400) \div 4 - (yy % 400) \div 100
        + (153 * mp + 2) \div 5 + d - 1 - 719468

\* the days from 1970-01-01 to day d of month m (1..12) of year y
DaysFromCivil(y, m, d) ==
    IF m <= 2 THEN DaysFromShifted(y - 1, m + 9, d) ELSE DaysFromShifted(y, m - 3, d)

\* new Date(y, m, d) as a day number: m may exceed 11 and d may exceed the
\* month's length or be 0; the Date object carries the overflow over.
MakeDate(y, m, d) == DaysFromCivil(y + (m \div 12), (m % 12) + 1, 1) - 19723 + d - 1

CivilFromMonth(y0, doy, mp) ==
    [year |-> y0 + (IF mp >= 10 THEN 1 ELSE 0),
     month |-> IF mp < 10 THEN mp + 3 ELSE mp - 9,
     day |-> doy - (153 * mp + 2) \div 5 + 1]

CivilFromDayOfYear(y0, doy) == CivilFromMonth(y0, doy, (5 * doy + 2) \div 153)

CivilFromYearOfEra(era, doe, yoe) ==
    CivilFromDayOfYear(yoe + era * 400, doe - (365 * yoe + yoe \div 4 - yoe \div 100))

CivilFromDayOfEra(era, doe) ==
    CivilFromYearOfEra(era, doe,
        (doe - doe \div 1460 + doe \div 36524 - doe \div 146096) \div 365)

\* the year, month (1..12) and day of month of day number n
Civil(n) == CivilFromDayOfEra((n + 739191) \div 146097, (n + 739191) % 146097)

\* Date.getFullYear()
GetFullYear(n) == Civil(n).year

\* Date.getMonth()
GetMonth(n) == Civil(n).month - 1

\* Date.getDate()
GetDate(n) == Civil(n).day

\* Date.setMonth(m): same year and day of month, month m (overflow carried)
SetMonth(n, m) == MakeDate(GetFullYear(n), m, GetDate(n))

\* Date.setDate(0): the last day of the previous month
SetDateZero(n) == MakeDate(GetFullYear(n), GetMonth(n), 0)

-----------------------------------------------------------------------------
(* Arithmetic helpers.                                                     *)

\* Number.toFixed: the integer nearest to num/den (den > 0), a half rounded
\* away from zero.
Round(num, den) ==
    IF num >= 0 THEN (2 * num + den) \div (2 * den)
    ELSE 0 - (((2 * (0 - num)) + den) \div (2 * den))

Abs(x) == IF x < 0 THEN 0 - x ELSE x
Max(a, b) == IF a >= b THEN a ELSE b
Min(a, b) == IF a <= b THEN a ELSE b

\* Round(p * e / 10^8) for an amount p in cents and a factor e scaled by 10^8,
\* computed in two halves so that no product leaves 32 bits.
MulScaled(p, e) ==
    LET a == p * (e \div 10000)
        b == p * (e % 10000)
    IN  (a \div 10000) + Round((a % 10000) * 10000 + b, 100000000)

-----------------------------------------------------------------------------
(* Math.pow.  The two uses of Math.pow with a non-integer result are       *)
(* tabulated from IEEE double arithmetic, scaled by 10^8 and rounded, for  *)
(* the one non-zero annual rate of the model (100 percent, the largest the *)
(* validation accepts):                                                    *)
(*   Growth<c>[d]     = (1 + 1/c)^(d / (365/c)) - 1       for d in 1..400  *)
(*   Annuity<c><p>[n] = rp (1+rp)^n / ((1+rp)^n - 1)      for n in 1..12   *)
(*                      with rp = ((1 + 1/c)^c)^(1/p) - 1                  *)
(* where c and p are the periods per year of the compounding and of the    *)
(* payment frequency.                                                      *)

GrowthMonthly == <<
    263501, 527696, 792587, 1058176, 1324465, 1591456, 1859150, 2127549,
    2396656, 2666472, 2936999, 3208238, 3480193, 3752864, 4026253, 4300363,
    4575195, 4850752, 5127034, 5404044, 5681785, 5960257, 6239463, 6519405,
    6800084, 7081503, 7363663, 7646567, 7930217, 8214614, 8499760, 8785657,
    9072308, 9359715, 9647878, 9936801, 10226485, 10516933, 10808146, 11100126,
    11392875, 11686396, 11980691, 12275761, 12571608, 12868235, 13165643, 13463836,
    13762814, 14062579, 14363135, 14664483, 14966624, 15269562, 15573298, 15877835,
    16183173, 16489317, 16796267, 17104026, 17412596, 17721979, 18032177, 18343193,
    18655028, 18967684, 19281165, 19595472, 19910607, 20226572, 20543370, 20861002,
    21179472, 21498780, 21818931, 22139924, 22461764, 22784451, 23107989, 23432380,
    23757625, 24083727, 24410688, 24738511, 25067198, 25396751, 25727172, 26058464,
    26390629, 26723669, 27057587, 27392384, 27728064, 28064629, 28402080, 28740420,
    29079652, 29419778, 29760800, 30102720, 30445542, 30789267, 31133897, 31479436,
    31825885, 32173247, 32521524, 32870720, 33220835, 33571873, 33923835, 34276726,
    34630546, 34985298, 35340985, 35697609, 36055174, 36413680, 36773131, 37133529,
    37494877, 37857177, 38220431, 38584643, 38949814, 39315948, 39683046, 40051112,
    40420148, 40790156, 41161139, 41533099, 41906040, 42279963, 42654872, 43030769,
    43407656, 43785536, 44164412, 44544286, 44925161, 45307040, 45689925, 46073819,
    46458724, 46844644, 47231580, 47619537, 48008515, 48398518, 48789550, 49181611,
    49574705, 49968836, 50364005, 50760215, 51157469, 51555770, 51955120, 52355523,
    52756981, 53159497, 53563073, 53967713, 54373419, 54780194, 55188040, 55596962,
    56006961, 56418040, 56830203, 57243451, 57657789, 58073218, 58489742, 58907364,
    59326086, 59745911, 60166843, 60588883, 61012036, 61436304, 61861690, 62288196,
    62715827, 63144584, 63574471, 64005491, 64437646, 64870941, 65305377, 65740957,
    66177686, 66615565, 67054598, 67494788, 67936138, 68378651, 68822330, 69267178,
    69713198, 70160393, 70608767, 71058322, 71509062, 71960990, 72414108, 72868420,
    73323930, 73780640, 74238553, 74697672, 75158002, 75619544, 76082303, 76546281,
    77011482, 77477908, 77945564, 78414451, 78884575, 79355937, 79828541, 80302390,
    80777488, 81253838, 81731443, 82210307, 82690432, 83171822, 83654481, 84138412,
    84623618, 85110103, 85597869, 86086921, 86577261, 87068893, 87561821, 88056048,
    88551577, 89048411, 89546555, 90046011, 90546784, 91048876, 91552291, 92057033,
    92563104, 93070509, 93579251, 94089334, 94600760, 95113535, 95627660, 96143140,
    96659979, 97178179, 97697745, 98218680, 98740987, 99264671, 99789735, 100316182,
    100844017, 101373242, 101903862, 102435880, 102969300, 103504125, 104040360, 104578008,
    105117072, 105657557, 106199466, 106742803, 107287572, 107833776, 108381419, 108930505,
    109481039, 110033023, 110586461, 111141358, 111697717, 112255541, 112814836, 113375605,
    113937851, 114501579, 115066792, 115633494, 116201690, 116771383, 117342577, 117915276,
    118489484, 119065205, 119642443, 120221203, 120801487, 121383300, 121966647, 122551530,
    123137955, 123725925, 124315445, 124906517, 125499147, 126093339, 126689097, 127286424,
    127885325, 128485804, 129087866, 129691514, 130296753, 130903586, 131512019, 132122054,
    132733698, 133346952, 133961823, 134578314, 135196429, 135816174, 136437551, 137060565,
    137685221, 138311524, 138939476, 139569083, 140200349, 140833279, 141467876, 142104146,
    142742092, 143381719, 144023031, 144666033, 145310730, 145957125, 146605224, 147255030,
    147906549, 148559784, 149214741, 149871424, 150529836, 151189984, 151851871, 152515503,
    153180883, 153848016, 154516907, 155187561, 155859982, 156534175, 157210144, 157887894,
    158567431, 159248758, 159931880, 160616802, 161303529, 161992066, 162682416, 163374586,
    164068580, 164764403, 165462058, 166161553, 166862890, 167566076, 168271114, 168978010,
    169686769, 170397395, 171109894, 171824271, 172540530, 173258676, 173978714, 174700650,
    175424488, 176150233, 176877891, 177607466, 178338963, 179072388, 179807746, 180545041,
    181284279, 182025465, 182768604, 183513701, 184260762, 185009791, 185760794, 186513775
    >>

GrowthQuarterly == <<
    244840, 490280, 736320, 982963, 1230210, 1478062, 1726521, 1975589,
    2225266, 2475554, 2726455, 2977971, 3230102, 3482851, 3736219, 3990207,
    4244816, 4500049, 4755907, 5012392, 5269504, 5527246, 5785619, 6044625,
    6304265, 6564540, 6825453, 7087005, 7349197, 7612031, 7875508, 8139630,
    8404400, 8669817, 8935884, 9202603, 9469975, 9738001, 10006684, 10276025,
    10546025, 10816686, 11088009, 11359997, 11632651, 11905973, 12179964, 12454625,
    12729959, 13005967, 13282651, 13560013, 13838053, 14116774, 14396178, 14676266,
    14957039, 15238500, 15520650, 15803491, 16087025, 16371252, 16656176, 16941797,
    17228117, 17515139, 17802863, 18091292, 18380426, 18670269, 18960822, 19252086,
    19544062, 19836754, 20130163, 20424290, 20719137, 21014705, 21310998, 21608016,
    21905761, 22204235, 22503440, 22803378, 23104050, 23405458, 23707604, 24010490,
    24314117, 24618488, 24923604, 25229467, 25536079, 25843442, 26151557, 26460427,
    26770053, 27080437, 27391581, 27703486, 28016156, 28329591, 28643793, 28958765,
    29274507, 29591023, 29908314, 30226382, 30545228, 30864855, 31185265, 31506459,
    31828440, 32151209, 32474768, 32799119, 33124265, 33450206, 33776946, 34104486,
    34432827, 34761973, 35091924, 35422683, 35754252, 36086633, 36419828, 36753838,
    37088667, 37424315, 37760785, 38098078, 38436198, 38775145, 39114922, 39455532,
    39796975, 40139254, 40482371, 40826328, 41171127, 41516771, 41863261, 42210599,
    42558788, 42907829, 43257724, 43608477, 43960088, 44312560, 44665895, 45020095,
    45375163, 45731099, 46087908, 46445589, 46804147, 47163582, 47523898, 47885096,
    48247178, 48610146, 48974003, 49338752, 49704393, 50070929, 50438363, 50806697,
    51175932, 51546071, 51917117, 52289071, 52661936, 53035713, 53410406, 53786016,
    54162546, 54539998, 54918374, 55297676, 55677907, 56059069, 56441164, 56824195,
    57208164, 57593072, 57978923, 58365719, 58753462, 59142154, 59531798, 59922396,
    60313950, 60706463, 61099937, 61494374, 61889777, 62286148, 62683490, 63081804,
    63481094, 63881361, 64282609, 64684838, 65088053, 65492255, 65897446, 66303630,
    66710808, 67118983, 67528157, 67938333, 68349514, 68761701, 69174897, 69589105,
    70004327, 70420566, 70837824, 71256104, 71675407, 72095738, 72517097, 72939488,
    73362913, 73787375, 74212876, 74639419, 75067007, 75495641, 75925325, 76356061,
    76787851, 77220699, 77654606, 78089576, 78525611, 78962713, 79400885, 79840131,
    80280452, 80721850, 81164330, 81607893, 82052542, 82498280, 82945109, 83393032,
    83842051, 84292170, 84743392, 85195718, 85649151, 86103695, 86559351, 87016123,
    87474014, 87933025, 88393161, 88854423, 89316814, 89780338, 90244996, 90710792,
    91177729, 91645809, 92115035, 92585409, 93056936, 93529616, 94003455, 94478453,
    94954614, 95431941, 95910437, 96390104, 96870946, 97352965, 97836164, 98320547,
    98806115, 99292872, 99780821, 100269965, 100760306, 101251848, 101744593, 102238545,
    102733706, 103230079, 103727668, 104226475, 104726503, 105227756, 105730236, 106233946,
    106738890, 107245069, 107752488, 108261150, 108771057, 109282212, 109794619, 110308280,
    110823199, 111339379, 111856823, 112375533, 112895514, 113416767, 113939297, 114463106,
    114988198, 115514576, 116042242, 116571200, 117101453, 117633004, 118165857, 118700015,
    119235480, 119772257, 120310347, 120849756, 121390484, 121932537, 122475917, 123020627,
    123566671, 124114052, 124662773, 125212838, 125764249, 126317011, 126871126, 127426597,
    127983429, 128541624, 129101185, 129662117, 130224422, 130788104, 131353166, 131919611,
    132487443, 133056666, 133627282, 134199295, 134772709, 135347527, 135923752, 136501388,
    137080438, 137660906, 138242796, 138826110, 139410852, 139997026, 140584635, 141173682,
    141764172, 142356108, 142949493, 143544331, 144140625, 144738379, 145337597, 145938282,
    146540437, 147144067, 147749175, 148355765, 148963839, 149573402, 150184458, 150797010,
    151411062, 152026617, 152643679, 153262252, 153882340, 154503946, 155127074, 155751727,
    156377910, 157005626, 157634879, 158265672, 158898010, 159531897, 160167335, 160804329,
    161442883, 162083000, 162724684, 163367939, 164012770, 164659179, 165307171, 165956749
    >>

GrowthHalfYearly == <<
    222420, 445334, 668744, 892651, 1117056, 1341961, 1567365, 1793271,
    2019679, 2246591, 2474007, 2701930, 2930359, 3159296, 3388743, 3618700,
    3849168, 4080149, 4311644, 4543653, 4776179, 5009222, 5242783, 5476863,
    5711465, 5946588, 6182234, 6418404, 6655099, 6892321, 7130071, 7368349,
    7607157, 7846497, 8086369, 8326774, 8567714, 8809190, 9051203, 9293754,
    9536845, 9780477, 10024650, 10269366, 10514627, 10760433, 11006786, 11253687,
    11501137, 11749138, 11997690, 12246795, 12496454, 12746668, 12997438, 13248767,
    13500654, 13753102, 14006111, 14259683, 14513819, 14768521, 15023788, 15279624,
    15536028, 15793003, 16050550, 16308669, 16567362, 16826631, 17086476, 17346900,
    17607902, 17869485, 18131650, 18394398, 18657731, 18921649, 19186154, 19451247,
    19716930, 19983204, 20250071, 20517530, 20785585, 21054236, 21323484, 21593332,
    21863779, 22134828, 22406480, 22678736, 22951597, 23225066, 23499143, 23773829,
    24049126, 24325036, 24601559, 24878698, 25156452, 25434825, 25713817, 25993429,
    26273663, 26554521, 26836003, 27118111, 27400847, 27684211, 27968206, 28252832,
    28538092, 28823986, 29110516, 29397683, 29685489, 29973935, 30263022, 30552753,
    30843128, 31134149, 31425817, 31718133, 32011100, 32304719, 32598991, 32893917,
    33189499, 33485739, 33782637, 34080196, 34378417, 34677301, 34976850, 35277065,
    35577947, 35879499, 36181722, 36484617, 36788186, 37092429, 37397350, 37702949,
    38009227, 38316187, 38623829, 38932156, 39241168, 39550868, 39861256, 40172335,
    40484106, 40796570, 41109730, 41423585, 41738139, 42053393, 42369347, 42686005,
    43003366, 43321434, 43640209, 43959693, 44279888, 44600795, 44922415, 45244751,
    45567804, 45891575, 46216067, 46541280, 46867217, 47193878, 47521266, 47849383,
    48178229, 48507806, 48838117, 49169162, 49500944, 49833463, 50166722, 50500722,
    50835466, 51170953, 51507187, 51844169, 52181900, 52520383, 52859618, 53199608,
    53540354, 53881858, 54224121, 54567146, 54910934, 55255486, 55600805, 55946891,
    56293748, 56641376, 56989777, 57338953, 57688906, 58039637, 58391148, 58743441,
    59096518, 59450380, 59805029, 60160467, 60516695, 60873716, 61231530, 61590141,
    61949549, 62309757, 62670766, 63032577, 63395194, 63758617, 64122848, 64487890,
    64853743, 65220410, 65587893, 65956193, 66325312, 66695252, 67066015, 67437603,
    67810017, 68183259, 68557332, 68932237, 69307975, 69684549, 70061961, 70440212,
    70819305, 71199241, 71580021, 71961649, 72344126, 72727453, 73111633, 73496667,
    73882557, 74269306, 74656916, 75045387, 75434722, 75824924, 76215993, 76607932,
    77000742, 77394427, 77788987, 78184425, 78580742, 78977940, 79376023, 79774990,
    80174845, 80575589, 80977225, 81379754, 81783178, 82187499, 82592720, 82998842,
    83405868, 83813798, 84222636, 84632384, 85043042, 85454614, 85867102, 86280507,
    86694831, 87110077, 87526247, 87943342, 88361365, 88780318, 89200202, 89621021,
    90042775, 90465468, 90889100, 91313675, 91739194, 92165660, 92593074, 93021439,
    93450757, 93881029, 94312259, 94744447, 95177597, 95611710, 96046789, 96482836,
    96919852, 97357841, 97796803, 98236742, 98677660, 99119558, 99562439, 100006305,
    100451158, 100897001, 101343836, 101791664, 102240488, 102690311, 103141134, 103592960,
    104045790, 104499628, 104954476, 105410335, 105867208, 106325097, 106784004, 107243932,
    107704884, 108166860, 108629864, 109093898, 109558964, 110025064, 110492201, 110960377,
    111429595, 111899856, 112371162, 112843518, 113316923, 113791382, 114266896, 114743468,
    115221100, 115699794, 116179552, 116660378, 117142273, 117625240, 118109282, 118594400,
    119080597, 119567875, 120056237, 120545685, 121036222, 121527850, 122020572, 122514389,
    123009305, 123505321, 124002441, 124500666, 125000000, 125500444, 126002002, 126504674,
    127008465, 127513377, 128019411, 128526571, 129034859, 129544278, 130054829, 130566516,
    131079342, 131593307, 132108416, 132624671, 133142074, 133660628, 134180335, 134701198,
    135223220, 135746402, 136270749, 136796261, 137322943, 137850796, 138379822, 138910026,
    139441409, 139973974, 140507723, 141042659, 141578786, 142116104, 142654618, 143194330
    >>

AnnuityMonthlyMonthly == <<
    108333333, 56333333, 39036958, 30416400, 25266071, 21850751,
    19426755, 17622225, 16230558, 15127781, 14234991, 13499577
    >>

AnnuityMonthlyQuarterly == <<
    127141204, 71166681, 52862026, 43967372, 38828691, 35559844,
    33351479, 31798277, 30674689, 29845236, 29223708, 28752753
    >>

AnnuityMonthlyHalfYearly == <<
    161648857, 99868019, 80771057, 72226988, 67790828, 65309349,
    63863186, 63000185, 62477891, 62159101, 61963514, 61843133
    >>

AnnuityQuarterlyMonthly == <<
    107721735, 55863062, 38608673, 30005288, 24862232, 21449263,
    19024832, 17218154, 15823226, 14716439, 13819121, 13078819
    >>

AnnuityQuarterlyQuarterly == <<
    125000000, 69444444, 51229508, 42344173, 37184674, 33881950,
    31634165, 30039851, 28875620, 28007256, 27349286, 26844758
    >>

AnnuityQuarterlyHalfYearly == <<
    156250000, 95274390, 76234387, 67589664, 63016327, 60400705,
    58837710, 57879153, 57281899, 56906082, 56668137, 56516893
    >>

AnnuityHalfYearlyMonthly == <<
    106991319, 55302524, 38099123, 29517026, 24383401, 20973958,
    18549707, 16741143, 15342980, 14232038, 13329925, 12584375
    >>

AnnuityHalfYearlyQuarterly == <<
    122474487, 67423461, 49321964, 40454077, 35275532, 31937429,
    29646782, 28006669, 26796279, 25882940, 25182124, 24637445
    >>

AnnuityHalfYearlyHalfYearly == <<
    150000000, 90000000, 71052632, 62307692, 57582938, 54812030,
    53108305, 52030135, 51335350, 50882378, 50584812, 50388361
    >>


\* Math.pow(1 + ratePerPeriod, periodsElapsed) - 1, scaled by 10^8
GrowthFactor(annualRate, periodsPerYear, days) ==
    CASE annualRate = 100 /\ periodsPerYear = 12 -> GrowthMonthly[days]
      [] annualRate = 100 /\ periodsPerYear = 4 -> GrowthQuarterly[days]
      [] annualRate = 100 /\ periodsPerYear = 2 -> GrowthHalfYearly[days]

\* ratePerPaymentPeriod * (1+ratePerPaymentPeriod)^n / ((1+ratePerPaymentPeriod)^n - 1),
\* scaled by 10^8
AnnuityFactor(annualRate, compoundsPerYear, paymentsPerYear, n) ==
    CASE annualRate = 100 /\ compoundsPerYear = 12 /\ paymentsPerYear = 12 -> AnnuityMonthlyMonthly[n]
      [] annualRate = 100 /\ compoundsPerYear = 12 /\ paymentsPerYear = 4 -> AnnuityMonthlyQuarterly[n]
      [] annualRate = 100 /\ compoundsPerYear = 12 /\ paymentsPerYear = 2 -> AnnuityMonthlyHalfYearly[n]
      [] annualRate = 100 /\ compoundsPerYear = 4 /\ paymentsPerYear = 12 -> AnnuityQuarterlyMonthly[n]
      [] annualRate = 100 /\ compoundsPerYear = 4 /\ paymentsPerYear = 4 -> AnnuityQuarterlyQuarterly[n]
      [] annualRate = 100 /\ compoundsPerYear = 4 /\ paymentsPerYear = 2 -> AnnuityQuarterlyHalfYearly[n]
      [] annualRate = 100 /\ compoundsPerYear = 2 /\ paymentsPerYear = 12 -> AnnuityHalfYearlyMonthly[n]
      [] annualRate = 100 /\ compoundsPerYear = 2 /\ paymentsPerYear = 4 -> AnnuityHalfYearlyQuarterly[n]
      [] annualRate = 100 /\ compoundsPerYear = 2 /\ paymentsPerYear = 2 -> AnnuityHalfYearlyHalfYearly[n]

-----------------------------------------------------------------------------
(* The helpers of loan.controller.js.                                      *)

Frequencies == {"monthly", "quarterly", "half-yearly"}

Statuses == {"active", "closed"}

\* the value of a date field that is null or undefined
NoDate == 0 - 1

\* calculateNumberOfPayments; 0 stands for the thrown "Invalid payment frequency"
calculateNumberOfPayments(startDate, endDate, paymentFrequency) ==
    LET months == (GetFullYear(endDate) - GetFullYear(startDate)) * 12
                    + (GetMonth(endDate) - GetMonth(startDate))
    IN  CASE paymentFrequency = "monthly" -> Max(1, months)
          [] paymentFrequency = "quarterly" -> Max(1, months \div 3)
          [] paymentFrequency = "half-yearly" -> Max(1, months \div 6)
          [] OTHER -> 0

\* a lookup that takes every unrecognized name for monthly
getFrequencyDetailsLenient(frequency) ==
    CASE frequency = "quarterly" -> [ok |-> TRUE, periodsPerYear |-> 4, daysPerPeriod |-> 90]
      [] frequency = "half-yearly" -> [ok |-> TRUE, periodsPerYear |-> 2, daysPerPeriod |-> 180]
      [] OTHER -> [ok |-> TRUE, periodsPerYear |-> 12, daysPerPeriod |-> 30]

\* getFrequencyDetails; ok = FALSE stands for the thrown "Invalid frequency"
getFrequencyDetails(frequency) ==
    CASE frequency = "monthly" -> [ok |-> TRUE, periodsPerYear |-> 12, daysPerPeriod |-> 30]
      [] frequency = "quarterly" -> [ok |-> TRUE, periodsPerYear |-> 4, daysPerPeriod |-> 90]
      [] frequency = "half-yearly" -> [ok |-> TRUE, periodsPerYear |-> 2, daysPerPeriod |-> 180]
      [] OTHER -> [ok |-> FALSE, periodsPerYear |-> 0, daysPerPeriod |-> 0]

\* a zero-rate branch that rounds the quotient to cents
calculatePaymentRounded(principal, annualRate, compoundsPerYear, paymentsPerYear, numberOfPayments) ==
    IF annualRate = 0
    THEN [num |-> Round(principal, numberOfPayments), den |-> 1]
    ELSE [num |-> MulScaled(principal,
                     AnnuityFactor(annualRate, compoundsPerYear, paymentsPerYear, numberOfPayments)),
          den |-> 1]

\* calculatePayment, in cents, as the fraction num/den: the zero-rate branch
\* returns principal / numberOfPayments unrounded, the other branch rounds.
calculatePayment(principal, annualRate, compoundsPerYear, paymentsPerYear, numberOfPayments) ==
    IF annualRate = 0
    THEN [num |-> principal, den |-> numberOfPayments]
    ELSE [num |-> MulScaled(principal,
                     AnnuityFactor(annualRate, compoundsPerYear, paymentsPerYear, numberOfPayments)),
          den |-> 1]

\* setMonth alone, with the overflow into the following month left in
advanceDateUnclamped(date, months) == SetMonth(date, GetMonth(date) + months)

\* advanceDate
advanceDate(date, months) ==
    LET newDate == SetMonth(date, GetMonth(date) + months)
    IN  IF GetDate(newDate) # GetDate(date) THEN SetDateZero(newDate) ELSE newDate

\* simple interest on the days between the two dates, whichever comes first
calculateAccruedInterestSimple(principal, annualRate, fromDate, toDate, compoundingFrequency) ==
    Round(principal * annualRate * Abs(toDate - fromDate), 36500)

\* calculateAccruedInterest, in cents
calculateAccruedInterest(principal, annualRate, fromDate, toDate, compoundingFrequency) ==
    IF annualRate = 0 THEN 0
    ELSE IF toDate <= fromDate THEN 0
    ELSE MulScaled(principal,
             GrowthFactor(annualRate, getFrequencyDetails(compoundingFrequency).periodsPerYear,
                          toDate - fromDate))

\* the months of one payment period (the if / else-if / else on paymentFrequency)
PeriodMonths(paymentFrequency) ==
    IF paymentFrequency = "monthly" THEN 1
    ELSE IF paymentFrequency = "quarterly" THEN 3 ELSE 6

-----------------------------------------------------------------------------
(* Documents.  A stored Loan document holds exactly the paths of           *)
(* loanSchema.  The handlers also read and assign loan.lastPaymentDate,    *)
(* which loanSchema does not declare: under Mongoose's strict schemas the  *)
(* constructor drops it, a loaded document reads it as undefined, and an   *)
(* assignment to it is a property of the in-memory object that save() does *)
(* not write.  The strings title, lenderName, notes and paymentMethod take *)
(* no part in any computation and are left out.                            *)

SchemaPaths ==
    {"amount", "startDate", "endDate", "interestRate", "paymentAmount",
     "paymentFrequency", "compoundingFrequency", "nextDueDate", "amountPaid",
     "remainingBalance", "numberOfPayments", "status"}

\* what reaches the database of an in-memory document
Strict(doc) == [f \in SchemaPaths |-> doc[f]]

\* the in-memory document findOne returns for a stored one
Hydrate(stored) ==
    [f \in SchemaPaths \cup {"lastPaymentDate"} |->
        IF f \in SchemaPaths THEN stored[f] ELSE NoDate]

\* loanSchema without the lower bound of remainingBalance
ValidLoanNoMin(doc) ==
    /\ doc.amount >= 0
    /\ doc.interestRate >= 0 /\ doc.interestRate <= 100
    /\ doc.paymentAmount >= 0
    /\ doc.paymentFrequency \in Frequencies
    /\ doc.compoundingFrequency \in Frequencies
    /\ doc.nextDueDate # NoDate
    /\ doc.amountPaid >= 0
    /\ doc.numberOfPayments >= 1
    /\ doc.status \in Statuses

\* the validators of loanSchema, run by save() on every path
ValidLoan(doc) ==
    /\ doc.amount >= 0
    /\ doc.interestRate >= 0 /\ doc.interestRate <= 100
    /\ doc.paymentAmount >= 0
    /\ doc.paymentFrequency \in Frequencies
    /\ doc.compoundingFrequency \in Frequencies
    /\ doc.nextDueDate # NoDate
    /\ doc.amountPaid >= 0
    /\ doc.remainingBalance >= 0
    /\ doc.numberOfPayments >= 1
    /\ doc.status \in Statuses

\* loan.save(): validation, then an update that sets the paths modified since
\* the document was loaded; FALSE when validation throws
SaveOk(doc) == ValidLoan(doc)

Saved(collection, id, loaded, doc) ==
    [collection EXCEPT ![id] =
        [f \in SchemaPaths |-> IF doc[f] # loaded[f] THEN doc[f] ELSE collection[id][f]]]

\* the express-validator chains (the checks on the strings left out)
loanValidation(body) ==
    /\ body.amount >= 0
    /\ body.interestRate >= 0 /\ body.interestRate <= 100
    /\ body.paymentFrequency \in Frequencies
    /\ body.compoundingFrequency \in Frequencies
    /\ body.status \in Statuses

\* paymentAmount: isFloat({min: 0.01}); paymentDate is optional
paymentValidation(body) == body.paymentAmount >= 1

\* the outcome of a handler: the response and the in-memory document when it
\* responds
Outcome(code, doc) == [code |-> code, doc |-> doc]

-----------------------------------------------------------------------------
(* The handlers, as functions of the loaded document, the request body and *)
(* the clock.                                                              *)

\* calculateNumberOfPayments or getFrequencyDetails throws inside the try
\* block of createLoan or reviseLoan, and the catch answers 500
HelperThrows(body) ==
    \/ calculateNumberOfPayments(body.startDate, body.endDate, body.paymentFrequency) = 0
    \/ ~ getFrequencyDetails(body.compoundingFrequency).ok
    \/ ~ getFrequencyDetails(body.paymentFrequency).ok

\* router.post("/")
createLoan(body) ==
    IF ~ loanValidation(body) THEN Outcome("InvalidTerms", <<>>)
    ELSE IF body.endDate <= body.startDate THEN Outcome("InvalidTerms", <<>>)
    ELSE IF HelperThrows(body) THEN Outcome("ServerError", <<>>)
    ELSE
      LET numberOfPayments ==
              calculateNumberOfPayments(body.startDate, body.endDate, body.paymentFrequency)
          compoundsPerYear == getFrequencyDetails(body.compoundingFrequency).periodsPerYear
          paymentsPerYear == getFrequencyDetails(body.paymentFrequency).periodsPerYear
          rawPaymentAmount ==
              calculatePayment(body.amount, body.interestRate, compoundsPerYear,
                               paymentsPerYear, numberOfPayments)
          nextDueDate == advanceDate(body.startDate, PeriodMonths(body.paymentFrequency))
          loan ==
              [amount |-> body.amount,
               startDate |-> body.startDate,
               endDate |-> body.endDate,
               interestRate |-> body.interestRate,
               paymentAmount |-> Round(rawPaymentAmount.num, rawPaymentAmount.den),
               paymentFrequency |-> body.paymentFrequency,
               compoundingFrequency |-> body.compoundingFrequency,
               nextDueDate |-> nextDueDate,
               lastPaymentDate |-> body.startDate,
               amountPaid |-> 0,
               remainingBalance |-> body.amount,
               numberOfPayments |-> numberOfPayments,
               status |-> body.status]
      IN  IF SaveOk(loan) THEN Outcome("ok", Hydrate(Strict(loan)))
          ELSE Outcome("ServerError", <<>>)

\* loan.lastPaymentDate || loan.startDate
LastPaymentDate(loan) ==
    IF loan.lastPaymentDate # NoDate THEN loan.lastPaymentDate ELSE loan.startDate

\* a handler that skips the closed check
IsClosedSkipped(loan) == FALSE

\* loan.status === "closed"
IsClosed(loan) == loan.status = "closed"

\* a comparison with the balance due itself, without the tenth above it
ExceedsBalance(actualPaymentAmount, currentBalance) ==
    actualPaymentAmount > currentBalance

\* actualPaymentAmount > currentBalance * 1.1
ExceedsTolerance(actualPaymentAmount, currentBalance) ==
    actualPaymentAmount * 10 > currentBalance * 11

\* an allocation that puts the whole payment on the principal
interestPaidNone(accruedInterest, actualPaymentAmount) == 0

\* Math.min(accruedInterest, actualPaymentAmount)
interestPaid(accruedInterest, actualPaymentAmount) ==
    Min(accruedInterest, actualPaymentAmount)

\* a loan closed only by a balance of exactly 0
IsPaidOff(remainingBalance) == remainingBalance <= 0

\* loan.remainingBalance <= 0.01
IsPaidUp(remainingBalance) == remainingBalance <= 1

\* router.post("/:id/payment") from the loaded loan to the save
applyPayment(loan, body, clock) ==
    IF ~ paymentValidation(body) THEN Outcome("InvalidPayment", loan)
    ELSE IF IsClosed(loan) THEN Outcome("LoanClosed", loan)
    ELSE
      LET paymentDateTime == IF body.paymentDate # NoDate THEN body.paymentDate ELSE clock
          accruedInterest ==
              calculateAccruedInterest(loan.remainingBalance, loan.interestRate,
                                       LastPaymentDate(loan), paymentDateTime,
                                       loan.compoundingFrequency)
          currentBalance == loan.remainingBalance + accruedInterest
          actualPaymentAmount ==
              IF body.paymentAmount # 0 THEN body.paymentAmount ELSE loan.paymentAmount
      IN  IF ExceedsTolerance(actualPaymentAmount, currentBalance)
          THEN [code |-> "PaymentTooLarge", doc |-> loan,
                suggestedPayment |-> currentBalance]
          ELSE
            LET interest == interestPaid(accruedInterest, actualPaymentAmount)
                principalPaid == actualPaymentAmount - interest
                remaining == Max(0, loan.remainingBalance - principalPaid)
                paidLoan ==
                    [loan EXCEPT
                        !.amountPaid = loan.amountPaid + actualPaymentAmount,
                        !.remainingBalance = IF IsPaidUp(remaining) THEN 0 ELSE remaining,
                        !.lastPaymentDate = paymentDateTime,
                        !.nextDueDate =
                            advanceDate(paymentDateTime, PeriodMonths(loan.paymentFrequency)),
                        !.status = IF IsPaidUp(remaining) THEN "closed" ELSE loan.status]
            IN  IF SaveOk(paidLoan)
                THEN [code |-> "ok", doc |-> paidLoan,
                      interest |-> interest, principalPaid |-> principalPaid]
                ELSE Outcome("ServerError", paidLoan)

\* a revision that takes the new principal as the remaining balance
NewRemainingBalanceReset(loan, amount, accruedInterest) == amount

\* the remaining balance reviseLoan carries over to the new principal
NewRemainingBalance(loan, amount, accruedInterest) ==
    IF loan.amount # amount /\ loan.amount > 0
    THEN Round(amount * (loan.remainingBalance - accruedInterest), loan.amount)
    ELSE amount

\* router.put("/:id") from the loaded loan to the save
reviseLoan(loan, body, clock) ==
    IF ~ loanValidation(body) THEN Outcome("InvalidTerms", loan)
    ELSE IF body.endDate <= body.startDate THEN Outcome("InvalidTerms", loan)
    ELSE IF HelperThrows(body) THEN Outcome("ServerError", loan)
    ELSE
      LET numberOfPayments ==
              calculateNumberOfPayments(body.startDate, body.endDate, body.paymentFrequency)
          compoundsPerYear == getFrequencyDetails(body.compoundingFrequency).periodsPerYear
          paymentsPerYear == getFrequencyDetails(body.paymentFrequency).periodsPerYear
          paymentAmount ==
              calculatePayment(body.amount, body.interestRate, compoundsPerYear,
                               paymentsPerYear, numberOfPayments)
          accruedInterest ==
              calculateAccruedInterest(loan.remainingBalance, loan.interestRate,
                                       LastPaymentDate(loan), clock,
                                       loan.compoundingFrequency)
          newRemainingBalance == NewRemainingBalance(loan, body.amount, accruedInterest)
          revised ==
              [loan EXCEPT
                  !.amount = body.amount,
                  !.startDate = body.startDate,
                  !.endDate = body.endDate,
                  !.interestRate = body.interestRate,
                  !.paymentAmount = Round(paymentAmount.num, paymentAmount.den),
                  !.paymentFrequency = body.paymentFrequency,
                  !.compoundingFrequency = body.compoundingFrequency,
                  !.nextDueDate = advanceDate(clock, PeriodMonths(body.paymentFrequency)),
                  !.numberOfPayments = numberOfPayments,
                  !.status = body.status,
                  !.remainingBalance = newRemainingBalance,
                  !.amountPaid = body.amount - newRemainingBalance,
                  !.lastPaymentDate = clock]
      IN  IF SaveOk(revised) THEN Outcome("ok", revised)
          ELSE Outcome("ServerError", revised)

\* router.post("/:id/payoff") from the loaded loan to the save
payoff(loan, clock) ==
    IF IsClosed(loan) THEN Outcome("LoanClosed", loan)
    ELSE
      LET accruedInterest ==
              calculateAccruedInterest(loan.remainingBalance, loan.interestRate,
                                       LastPaymentDate(loan), clock,
                                       loan.compoundingFrequency)
          finalPaymentAmount == loan.remainingBalance + accruedInterest
          paidOff ==
              [loan EXCEPT
                  !.amountPaid = loan.amountPaid + finalPaymentAmount,
                  !.remainingBalance = 0,
                  !.status = "closed",
                  !.nextDueDate = NoDate,
                  !.lastPaymentDate = clock]
      IN  IF SaveOk(paidOff) THEN Outcome("ok", paidOff)
          ELSE Outcome("ServerError", paidOff)

-----------------------------------------------------------------------------
(* The requests of the model.                                              *)

\* 2024-01-31 and 2024-03-01
StartDates == {MakeDate(2024, 0, 31), MakeDate(2024, 2, 1)}

\* 2024-01-31 (never after the start date) and 2024-08-31
EndDates == {MakeDate(2024, 0, 31), MakeDate(2024, 7, 31)}

\* the days on which requests arrive: 2024-01-31 and 2024-12-16
NowDates == {MakeDate(2024, 0, 31), MakeDate(2024, 11, 16)}

\* -1.00 (refused by the validation), 10.00 and 12.00
Amounts == {0 - 100, 1000, 1200}

\* percent a year
Rates == {0, 100}

\* the bodies of POST /
LoanBodies ==
    [amount : Amounts, startDate : StartDates, endDate : EndDates,
     interestRate : Rates, paymentFrequency : Frequencies,
     compoundingFrequency : {"monthly"}, status : Statuses]

\* the terms of a stored loan, as the edit form shows them
Terms(stored) ==
    [amount |-> stored.amount, startDate |-> stored.startDate, endDate |-> stored.endDate,
     interestRate |-> stored.interestRate, paymentFrequency |-> stored.paymentFrequency,
     compoundingFrequency |-> stored.compoundingFrequency, status |-> stored.status]

\* the bodies of PUT /:id: the stored terms with one of them changed
EditBodies(stored) ==
    {[Terms(stored) EXCEPT !.amount = a] : a \in Amounts}
    \cup {[Terms(stored) EXCEPT !.startDate = d] : d \in StartDates}
    \cup {[Terms(stored) EXCEPT !.endDate = d] : d \in EndDates}
    \cup {[Terms(stored) EXCEPT !.interestRate = r] : r \in Rates}
    \cup {[Terms(stored) EXCEPT !.paymentFrequency = f] : f \in Frequencies}
    \cup {[Terms(stored) EXCEPT !.compoundingFrequency = f] : f \in Frequencies}
    \cup {[Terms(stored) EXCEPT !.status = t] : t \in Statuses}

\* payments stop being submitted once this much has been paid (cents)
MaxAmountPaid == 2500

\* the bodies of POST /:id/payment: an amount of 0 (refused by the validation),
\* 1.00, 50.00 or the stored periodic payment, dated today (no paymentDate) or
\* 2024-01-01
PaymentBodies(stored) ==
    [paymentAmount : {0, 100, 5000, stored.paymentAmount},
     paymentDate : {NoDate, MakeDate(2024, 0, 1)}]

\* the saves followed in one run
MaxWrites == 3

LoanIds == {"L1"}

Response(op, id, out) ==
    [op |-> op, id |-> id, code |-> out.code,
     lastPaymentDate |-> IF out.code = "ok" THEN out.doc.lastPaymentDate ELSE NoDate]

NoResponse == [op |-> "none", id |-> "none", code |-> "none", lastPaymentDate |-> NoDate]

-----------------------------------------------------------------------------
(* Spec: the requests handled one at a time.                               *)

Init ==
    /\ loans = <<>>
    /\ now = MakeDate(2024, 0, 31)
    /\ resp = NoResponse
    /\ reqs = <<>>
    /\ paid = <<>>
    /\ writes = 0
    /\ owner = <<>>
    /\ notifications = EmptyBag
    /\ expenses = <<>>
    /\ budgets = <<>>

\* the clock moves on to a later day
Tick ==
    /\ \E d \in NowDates : d > now /\ now' = d
    /\ resp' = NoResponse
    /\ UNCHANGED <<loans, reqs, paid, writes, rest>>

\* a write of the in-memory document whatever the handler answers
CommittedEagerly(id, loan, out) == Saved(loans, id, loan, out.doc)

\* what a handler leaves in the collection
Committed(id, loan, out) ==
    IF out.code = "ok" THEN Saved(loans, id, loan, out.doc) ELSE loans

\* POST /  (one loan is followed: the request is made while none is stored)
CreateLoan ==
    \E body \in LoanBodies, id \in LoanIds :
        LET out == createLoan(body)
        IN  /\ id \notin DOMAIN loans
            /\ out.code = "ok" => writes < MaxWrites
            /\ loans' = IF out.code = "ok" THEN loans @@ (id :> Strict(out.doc)) ELSE loans
            /\ resp' = Response("createLoan", id, out)
            /\ writes' = IF out.code = "ok" THEN writes + 1 ELSE writes
            /\ UNCHANGED <<now, reqs, paid, rest>>

\* a request for a loan id that findOne does not find
NotFound ==
    \E id \in LoanIds, op \in {"applyPayment", "reviseLoan", "payoff"} :
        /\ id \notin DOMAIN loans
        /\ resp' = Response(op, id, Outcome("NotFound", <<>>))
        /\ UNCHANGED <<loans, now, reqs, paid, writes, rest>>

\* POST /:id/payment
ApplyPayment ==
    \E id \in DOMAIN loans :
      \E body \in PaymentBodies(loans[id]) :
        LET loan == Hydrate(loans[id])
            out == applyPayment(loan, body, now)
        IN  /\ loans[id].amountPaid + body.paymentAmount <= MaxAmountPaid
            /\ out.code = "ok" => writes < MaxWrites
            /\ loans' = Committed(id, loan, out)
            /\ resp' = Response("applyPayment", id, out)
            /\ writes' = IF out.code = "ok" THEN writes + 1 ELSE writes
            /\ UNCHANGED <<now, reqs, paid, rest>>

\* PUT /:id
ReviseLoan ==
    \E id \in DOMAIN loans :
      \E body \in EditBodies(loans[id]) :
        LET loan == Hydrate(loans[id])
            out == reviseLoan(loan, body, now)
        IN  /\ out.code = "ok" => writes < MaxWrites
            /\ loans' = Committed(id, loan, out)
            /\ resp' = Response("reviseLoan", id, out)
            /\ writes' = IF out.code = "ok" THEN writes + 1 ELSE writes
            /\ UNCHANGED <<now, reqs, paid, rest>>

\* POST /:id/payoff: the save, then Notification.deleteMany, which the
\* database can fail; the error is then answered after the save
Payoff ==
    \E id \in DOMAIN loans, cleanupFails \in BOOLEAN :
        LET loan == Hydrate(loans[id])
            saved == payoff(loan, now)
            out == IF saved.code = "ok" /\ cleanupFails
                   THEN Outcome("ServerError", saved.doc) ELSE saved
        IN  /\ saved.code = "ok" => writes < MaxWrites
            /\ loans' = Committed(id, loan, saved)
            /\ resp' = Response("payoff", id, out)
            /\ writes' = IF saved.code = "ok" THEN writes + 1 ELSE writes
            /\ UNCHANGED <<now, reqs, paid, rest>>

Next == Tick \/ CreateLoan \/ NotFound \/ ApplyPayment \/ ReviseLoan \/ Payoff

Spec == Init /\ [][Next]_vars

-----------------------------------------------------------------------------
(* Properties of Spec.                                                     *)

\* a step that handled op for a loan that was stored before it
Handled(id, op) == resp'.op = op /\ resp'.id = id /\ id \in DOMAIN loans'

\* C1: the lifecycle is forward-only: in every step, a loan whose status is
\* closed still has status closed afterwards.
C1_ForwardOnly ==
    [][\A id \in DOMAIN loans :
          loans[id].status = "closed" => loans'[id].status = "closed"]_vars

\* C2: after every accepted createLoan request the created loan has
\* remainingBalance equal to the principal, amountPaid 0 and status active.
C2_CreatedActive ==
    (resp.op = "createLoan" /\ resp.code = "ok") =>
        /\ loans[resp.id].remainingBalance = loans[resp.id].amount
        /\ loans[resp.id].amountPaid = 0
        /\ loans[resp.id].status = "active"

\* C4: amountPaid is monotonically non-decreasing: no step leaves the persisted
\* amountPaid of a loan lower than it was before the step.
C4_AmountPaidMonotone ==
    [][\A id \in DOMAIN loans : loans'[id].amountPaid >= loans[id].amountPaid]_vars

\* C5: in every persisted loan state, nextDueDate is null if and only if status
\* is closed.
C5_NextDueDateNullIffClosed ==
    \A id \in DOMAIN loans :
        (loans[id].nextDueDate = NoDate) <=> (loans[id].status = "closed")

\* C6: payoff on an active loan succeeds and persists amountPaid increased by
\* remainingBalance + accruedInterest, remainingBalance 0, status closed and
\* nextDueDate null, and sets lastPaymentDate to now.
C6_PayoffPersists ==
    [][\A id \in DOMAIN loans :
          (Handled(id, "payoff") /\ loans[id].status = "active") =>
              /\ resp'.code = "ok"
              /\ loans'[id].amountPaid =
                    loans[id].amountPaid + loans[id].remainingBalance
                    + calculateAccruedInterest(loans[id].remainingBalance,
                          loans[id].interestRate, LastPaymentDate(Hydrate(loans[id])),
                          now, loans[id].compoundingFrequency)
              /\ loans'[id].remainingBalance = 0
              /\ loans'[id].status = "closed"
              /\ loans'[id].nextDueDate = NoDate
              /\ resp'.lastPaymentDate = now]_vars

\* C8: the lastPaymentDate that an accepted applyPayment, reviseLoan or payoff
\* leaves on a loan is not earlier than the last payment date the operation
\* found on it, and not earlier than the loan's startDate.
C8_LastPaymentDateMonotone ==
    [][\A id \in DOMAIN loans :
          \A op \in {"applyPayment", "reviseLoan", "payoff"} :
              (Handled(id, op) /\ resp'.code = "ok") =>
                  /\ resp'.lastPaymentDate >= LastPaymentDate(Hydrate(loans[id]))
                  /\ resp'.lastPaymentDate >= loans'[id].startDate]_vars

\* C9: in every persisted loan state remainingBalance is >= 0.
C9_RemainingBalanceNonNegative ==
    \A id \in DOMAIN loans : loans[id].remainingBalance >= 0

\* a reviseLoan was refused by save() on a loan whose accrued interest exceeds
\* its remaining balance
C9_Witness ==
    /\ resp.op = "reviseLoan" /\ resp.code = "ServerError"
    /\ resp.id \in DOMAIN loans
    /\ loans[resp.id].remainingBalance > 0
    /\ calculateAccruedInterest(loans[resp.id].remainingBalance,
           loans[resp.id].interestRate, loans[resp.id].startDate, now,
           loans[resp.id].compoundingFrequency) > loans[resp.id].remainingBalance

\* C10: an applyPayment that passes the request validation, and a payoff, for
\* a loan whose status is closed are answered with the loan-is-closed error and
\* leave every persisted field of the loan unchanged.
C10_ClosedLoanRefused ==
    [][\A id \in DOMAIN loans :
          ( /\ loans[id].status = "closed"
            /\ Handled(id, "applyPayment") \/ Handled(id, "payoff")
            /\ resp'.code # "InvalidPayment" ) =>
              (resp'.code = "LoanClosed" /\ loans'[id] = loans[id])]_vars

\* a payoff was refused for a loan that payments had closed
C10_Witness ==
    /\ resp.op = "payoff" /\ resp.code = "LoanClosed"
    /\ resp.id \in DOMAIN loans
    /\ loans[resp.id].status = "closed"
    /\ loans[resp.id].amountPaid > 0

-----------------------------------------------------------------------------
(* SpecSched: a loan is created and then paid on schedule: each payment is *)
(* the stored periodic payment, made on and dated the stored due date.     *)

SchedInit ==
    /\ loans = <<>>
    /\ now = MakeDate(2024, 0, 31)
    /\ resp = NoResponse
    /\ reqs = <<>>
    /\ paid = <<>>
    /\ writes = 0
    /\ owner = <<>>
    /\ notifications = EmptyBag
    /\ expenses = <<>>
    /\ budgets = <<>>

\* POST /, counting the payments of the created loan from 0
SchedCreateLoan ==
    \E body \in LoanBodies, id \in LoanIds :
        LET out == createLoan(body)
        IN  /\ id \notin DOMAIN loans
            /\ loans' = IF out.code = "ok" THEN loans @@ (id :> Strict(out.doc)) ELSE loans
            /\ paid' = IF out.code = "ok" THEN paid @@ (id :> 0) ELSE paid
            /\ resp' = Response("createLoan", id, out)
            /\ UNCHANGED <<now, reqs, writes, rest>>

\* POST /:id/payment on the due date with the periodic payment
SchedApplyPayment ==
    \E id \in DOMAIN loans :
        LET loan == Hydrate(loans[id])
            body == [paymentAmount |-> loan.paymentAmount, paymentDate |-> loan.nextDueDate]
            out == applyPayment(loan, body, loan.nextDueDate)
        IN  /\ paid[id] < loan.numberOfPayments
            /\ now' = loan.nextDueDate
            /\ loans' = Committed(id, loan, out)
            /\ paid' = IF out.code = "ok" THEN [paid EXCEPT ![id] = @ + 1] ELSE paid
            /\ resp' = Response("applyPayment", id, out)
            /\ UNCHANGED <<reqs, writes, rest>>

SchedNext == SchedCreateLoan \/ SchedApplyPayment

SpecSched == SchedInit /\ [][SchedNext]_vars

\* C7: once numberOfPayments payments of the stored periodic payment, each
\* dated the due date, have been applied to a created loan, its
\* remainingBalance is 0 and its status is closed.
C7_ScheduleClosesLoan ==
    \A id \in DOMAIN loans :
        paid[id] = loans[id].numberOfPayments =>
            (loans[id].remainingBalance = 0 /\ loans[id].status = "closed")

-----------------------------------------------------------------------------
(* SpecConc: two requests for one loan in flight together.  A handler      *)
(* awaits findOne, computes on the document it got, and awaits save(); the *)
(* other request's steps can fall between the two awaits.                  *)

Slots == {1, 2}

Ops == {"applyPayment", "reviseLoan", "payoff"}

NoBody == <<>>

Idle == [pc |-> "idle", op |-> "none", body |-> NoBody, loaded |-> <<>>, code |-> "none"]

\* the bodies a request for the stored loan can carry
Bodies(op, stored) ==
    CASE op = "applyPayment" -> PaymentBodies(stored)
      [] op = "reviseLoan" -> EditBodies(stored)
      [] op = "payoff" -> {NoBody}

\* the handler of op, from the loaded document to the save
Handle(op, loan, body, clock) ==
    CASE op = "applyPayment" -> applyPayment(loan, body, clock)
      [] op = "reviseLoan" -> reviseLoan(loan, body, clock)
      [] op = "payoff" -> payoff(loan, clock)

\* the loans the two requests are made for: 10.00 from 2024-01-31 to
\* 2024-08-31, paid monthly, as createLoan stores them
ConcLoans ==
    {Strict(createLoan(b).doc) :
        b \in {c \in LoanBodies :
                  /\ c.amount = 1000 /\ c.startDate = MakeDate(2024, 0, 31)
                  /\ c.endDate = MakeDate(2024, 7, 31)
                  /\ c.paymentFrequency = "monthly" /\ c.status = "active"}}

ConcInit ==
    /\ loans \in {("L1" :> l) : l \in ConcLoans}
    /\ now \in NowDates
    /\ resp = NoResponse
    /\ reqs = [base |-> loans, slots |-> [s \in Slots |-> Idle]]
    /\ paid = <<>>
    /\ writes = 0
    /\ owner = <<>>
    /\ notifications = EmptyBag
    /\ expenses = <<>>
    /\ budgets = <<>>

\* a request arrives: findOne, then the handler's computation up to save();
\* a request that is refused is answered here
Begin ==
    \E s \in Slots, id \in DOMAIN loans, op \in Ops :
      \E body \in Bodies(op, loans[id]) :
        LET loaded == Hydrate(loans[id])
            out == Handle(op, loaded, body, now)
        IN  /\ reqs.slots[s].pc = "idle"
            /\ reqs' = [reqs EXCEPT !.slots[s] =
                          [pc |-> IF out.code = "ok" THEN "saving" ELSE "done",
                           op |-> op, body |-> body, loaded |-> loaded,
                           code |-> out.code]]
            /\ resp' = IF out.code = "ok" THEN resp ELSE Response(op, id, out)
            /\ UNCHANGED <<loans, now, paid, writes, rest>>

\* save() of a request in flight completes and the request is answered
Finish ==
    \E s \in Slots, id \in DOMAIN loans :
        LET r == reqs.slots[s]
            out == Handle(r.op, r.loaded, r.body, now)
        IN  /\ r.pc = "saving"
            /\ loans' = Saved(loans, id, r.loaded, out.doc)
            /\ reqs' = [reqs EXCEPT !.slots[s].pc = "done"]
            /\ resp' = Response(r.op, id, out)
            /\ writes' = writes + 1
            /\ UNCHANGED <<now, paid, rest>>

ConcNext == Begin \/ Finish

SpecConc == ConcInit /\ [][ConcNext]_vars

\* the loan left by request a and then request b run one after the other on
\* the stored loan, when both succeed
Serial(stored, a, b) ==
    LET first == Handle(a.op, Hydrate(stored), a.body, now)
        between == Saved("L1" :> stored, "L1", Hydrate(stored), first.doc)["L1"]
        second == Handle(b.op, Hydrate(between), b.body, now)
    IN  IF first.code = "ok" /\ second.code = "ok"
        THEN {Saved("L1" :> between, "L1", Hydrate(between), second.doc)["L1"]}
        ELSE {}

\* C3: when an applyPayment and another request for the same loan were in
\* flight together and both reported success, the persisted amountPaid and
\* remainingBalance are those of the two run one after the other, in one
\* order or the other.
C3_NoLostUpdate ==
    LET a == reqs.slots[1]
        b == reqs.slots[2]
    IN  ( /\ a.pc = "done" /\ a.code = "ok"
          /\ b.pc = "done" /\ b.code = "ok"
          /\ "applyPayment" \in {a.op, b.op} ) =>
            \E l \in Serial(reqs.base["L1"], a, b) \cup Serial(reqs.base["L1"], b, a) :
                /\ loans["L1"].amountPaid = l.amountPaid
                /\ loans["L1"].remainingBalance = l.remainingBalance

-----------------------------------------------------------------------------
(* SpecPay: loans are created, with a principal of 0 among the requests,   *)
(* and paid with amounts on both sides of the tolerance of applyPayment.   *)
(* reqs records the request just handled.                                  *)

\* the bodies of POST /, a principal of 0 included
PayLoanBodies ==
    [amount : Amounts \cup {0}, startDate : StartDates, endDate : EndDates,
     interestRate : Rates, paymentFrequency : Frequencies,
     compoundingFrequency : {"monthly"}, status : Statuses]

\* 2024-01-01, 2024-04-01 and 2024-07-01
PayDates == {MakeDate(2024, 0, 1), MakeDate(2024, 3, 1), MakeDate(2024, 6, 1)}

\* paymentDate ? new Date(paymentDate) : new Date()
PaymentDateTime(body, clock) ==
    IF body.paymentDate # NoDate THEN body.paymentDate ELSE clock

\* loan.remainingBalance + accruedInterest at the payment date
currentBalance(loan, paymentDateTime) ==
    loan.remainingBalance
    + calculateAccruedInterest(loan.remainingBalance, loan.interestRate,
                               LastPaymentDate(loan), paymentDateTime,
                               loan.compoundingFrequency)

\* the largest amount in cents that is at most 1.1 times the balance due
Tolerated(loan, paymentDateTime) == (11 * currentBalance(loan, paymentDateTime)) \div 10

\* the bodies of POST /:id/payment: 0, 1.00, the periodic payment, one cent
\* less than the balance due, the largest tolerated amount and one cent more,
\* dated today or one of PayDates
BoundaryBodies(stored, clock) ==
    UNION {
        {[paymentAmount |-> a, paymentDate |-> d] :
            a \in {0, 100, stored.paymentAmount,
                   currentBalance(Hydrate(stored), PaymentDateTime([paymentDate |-> d], clock)) - 1,
                   Tolerated(Hydrate(stored), PaymentDateTime([paymentDate |-> d], clock)),
                   Tolerated(Hydrate(stored), PaymentDateTime([paymentDate |-> d], clock)) + 1}} :
        d \in PayDates \cup {NoDate}}

\* the payments accepted for one loan in one run
MaxPayments == 2

NoAmount == 0 - 1

NoRequest == [op |-> "none"]

\* the response of POST /:id/payment
PayResponse(id, out) ==
    [op |-> "applyPayment", id |-> id, code |-> out.code,
     lastPaymentDate |-> IF out.code = "ok" THEN out.doc.lastPaymentDate ELSE NoDate,
     suggestedPayment |->
         IF out.code = "PaymentTooLarge" THEN out.suggestedPayment ELSE NoAmount,
     interest |-> IF out.code = "ok" THEN out.interest ELSE NoAmount,
     principalPaid |-> IF out.code = "ok" THEN out.principalPaid ELSE NoAmount]

PayInit ==
    /\ loans = <<>>
    /\ now \in NowDates
    /\ resp = NoResponse
    /\ reqs = NoRequest
    /\ paid = <<>>
    /\ writes = 0
    /\ owner = <<>>
    /\ notifications = EmptyBag
    /\ expenses = <<>>
    /\ budgets = <<>>

\* POST /
PayCreateLoan ==
    \E body \in PayLoanBodies, id \in LoanIds :
        LET out == createLoan(body)
        IN  /\ id \notin DOMAIN loans
            /\ loans' = IF out.code = "ok" THEN loans @@ (id :> Strict(out.doc)) ELSE loans
            /\ paid' = IF out.code = "ok" THEN paid @@ (id :> 0) ELSE paid
            /\ resp' = Response("createLoan", id, out)
            /\ reqs' = [op |-> "createLoan", id |-> id, body |-> body]
            /\ UNCHANGED <<now, writes, rest>>

\* POST /:id/payment
PayApplyPayment ==
    \E id \in DOMAIN loans :
      \E body \in BoundaryBodies(loans[id], now) :
        LET loan == Hydrate(loans[id])
            out == applyPayment(loan, body, now)
        IN  /\ paid[id] < MaxPayments
            /\ loans' = Committed(id, loan, out)
            /\ paid' = IF out.code = "ok" THEN [paid EXCEPT ![id] = @ + 1] ELSE paid
            /\ resp' = PayResponse(id, out)
            /\ reqs' = [op |-> "applyPayment", id |-> id, body |-> body]
            /\ UNCHANGED <<now, writes, rest>>

PayNext == PayCreateLoan \/ PayApplyPayment

SpecPay == PayInit /\ [][PayNext]_vars

\* C11: an applyPayment that passes the request validation, for an active
\* loan, with an amount greater than 1.1 * (remainingBalance + accruedInterest)
\* is answered PaymentTooLarge with suggestedPayment = remainingBalance +
\* accruedInterest and leaves the persisted loan unchanged; with any amount at
\* or below that bound it is accepted.
C11_PaymentTooLarge ==
    [][\A id \in DOMAIN loans :
          ( /\ resp'.op = "applyPayment" /\ reqs'.id = id
            /\ paymentValidation(reqs'.body)
            /\ loans[id].status = "active" ) =>
              LET due == currentBalance(Hydrate(loans[id]),
                                        PaymentDateTime(reqs'.body, now))
              IN  IF reqs'.body.paymentAmount * 10 > due * 11
                  THEN /\ resp'.code = "PaymentTooLarge"
                       /\ resp'.suggestedPayment = due
                       /\ loans'[id] = loans[id]
                  ELSE resp'.code = "ok"]_vars

\* a payment one cent above the tolerated amount of a loan with a balance due
\* was refused
C11_Witness ==
    /\ resp.op = "applyPayment" /\ resp.code = "PaymentTooLarge"
    /\ currentBalance(Hydrate(loans[reqs.id]), PaymentDateTime(reqs.body, now)) > 0
    /\ reqs.body.paymentAmount =
          Tolerated(Hydrate(loans[reqs.id]), PaymentDateTime(reqs.body, now)) + 1

-----------------------------------------------------------------------------
(* Further properties of Spec.                                             *)

\* C12: an accepted reviseLoan that changes a positive principal persists
\* newRemainingBalance = newPrincipal * (1 - percentagePaid), where
\* percentagePaid = (oldPrincipal - (oldRemainingBalance - accruedInterest)) /
\* oldPrincipal; with no accrued interest newRemainingBalance / newPrincipal
\* equals oldRemainingBalance / oldPrincipal to within half a cent.
C12_FractionPaidPreserved ==
    [][\A id \in DOMAIN loans :
          ( /\ Handled(id, "reviseLoan") /\ resp'.code = "ok"
            /\ loans'[id].amount # loans[id].amount
            /\ loans[id].amount > 0 ) =>
              LET old == loans[id]
                  accruedInterest ==
                      calculateAccruedInterest(old.remainingBalance, old.interestRate,
                          LastPaymentDate(Hydrate(old)), now, old.compoundingFrequency)
                  principalPaid == old.amount - (old.remainingBalance - accruedInterest)
              IN  /\ loans'[id].remainingBalance =
                        Round(loans'[id].amount * (old.amount - principalPaid), old.amount)
                  /\ accruedInterest = 0 =>
                        2 * Abs(loans'[id].remainingBalance * old.amount
                                - old.remainingBalance * loans'[id].amount) <= old.amount]_vars

\* the principal of a loan with 9.00 of 10.00 remaining was revised to 12.00
\* and 10.80 remains
C12_Witness ==
    /\ resp.op = "reviseLoan" /\ resp.code = "ok"
    /\ resp.id \in DOMAIN loans
    /\ loans[resp.id].amount = 1200
    /\ loans[resp.id].remainingBalance = 1080

-----------------------------------------------------------------------------
(* SpecCalc: the helpers of the loan routes as functions.  The arguments   *)
(* of one call are drawn at the start (reqs) and the call returns (resp).  *)

\* the first day of the dates given to the helpers, 2023-01-01, and the
\* number of days from it
FirstDay == MakeDate(2023, 0, 1)

DaySpan == 850

\* every day from 2023-01-01 into 2025, a leap February included
CalcDates == {FirstDay + i : i \in 0 .. DaySpan}

\* cadence names, two of them not recognized
CadenceNames == Frequencies \cup {"weekly", "yearly"}

\* advanceDate(date, months) as the routes call it
AdvanceDateCalls ==
    [fn : {"advanceDate"}, date : CalcDates, months : {1, 3, 6}]

\* calculateNumberOfPayments(start, end, paymentFrequency) with the end after
\* the start: starts in mid-January, on 2024-01-31 and on 2024-03-01
NumberOfPaymentsCalls ==
    {c \in [fn : {"calculateNumberOfPayments"},
            startDate : {MakeDate(2024, 0, 15), MakeDate(2024, 0, 31), MakeDate(2024, 2, 1)},
            endDate : {d \in CalcDates : d >= MakeDate(2024, 0, 1)},
            paymentFrequency : CadenceNames] :
        c.endDate > c.startDate}

\* calculateAccruedInterest(principal, annualRate, fromDate, toDate, cadence)
AccruedInterestCalls ==
    [fn : {"calculateAccruedInterest"},
     principal : {0, 1, 1000, 1200},
     annualRate : Rates,
     fromDate : {MakeDate(2024, 0, 31), MakeDate(2024, 2, 1)},
     toDate : {MakeDate(2024, 0, 1), MakeDate(2024, 0, 31), MakeDate(2024, 1, 1),
               MakeDate(2024, 2, 1), MakeDate(2024, 2, 2), MakeDate(2024, 5, 1),
               MakeDate(2024, 11, 16)},
     compoundingFrequency : Frequencies]

\* the largest payment count of the calls
MaxCount == 11

\* calculatePayment(principal, annualRate, compoundsPerYear, paymentsPerYear, n)
PaymentCalls ==
    [fn : {"calculatePayment"},
     principal : {0, 1, 1000, 1001, 1200},
     annualRate : Rates,
     compoundsPerYear : {12, 4, 2},
     paymentsPerYear : {12, 4, 2},
     numberOfPayments : 1 .. MaxCount]

\* getFrequencyDetails(frequency)
FrequencyCalls == [fn : {"getFrequencyDetails"}, frequency : CadenceNames]

NoResult == [fn |-> "none"]

CalcInit ==
    /\ loans = <<>>
    /\ now = MakeDate(2024, 0, 31)
    /\ resp = NoResult
    /\ paid = <<>>
    /\ writes = 0
    /\ owner = <<>>
    /\ notifications = EmptyBag
    /\ expenses = <<>>
    /\ budgets = <<>>
    /\ \/ reqs \in AdvanceDateCalls
       \/ reqs \in NumberOfPaymentsCalls
       \/ reqs \in AccruedInterestCalls
       \/ reqs \in PaymentCalls
       \/ reqs \in FrequencyCalls

\* what a call returns to its caller
Returned(value) == [fn |-> reqs.fn, value |-> value]

CallAdvanceDate ==
    /\ reqs.fn = "advanceDate" /\ resp = NoResult
    /\ resp' = Returned(advanceDate(reqs.date, reqs.months))
    /\ UNCHANGED <<loans, now, reqs, paid, writes, rest>>

CallNumberOfPayments ==
    /\ reqs.fn = "calculateNumberOfPayments" /\ resp = NoResult
    /\ resp' = Returned(calculateNumberOfPayments(reqs.startDate, reqs.endDate,
                                                  reqs.paymentFrequency))
    /\ UNCHANGED <<loans, now, reqs, paid, writes, rest>>

CallAccruedInterest ==
    /\ reqs.fn = "calculateAccruedInterest" /\ resp = NoResult
    /\ resp' = Returned(calculateAccruedInterest(reqs.principal, reqs.annualRate,
                            reqs.fromDate, reqs.toDate, reqs.compoundingFrequency))
    /\ UNCHANGED <<loans, now, reqs, paid, writes, rest>>

CallPayment ==
    /\ reqs.fn = "calculatePayment" /\ resp = NoResult
    /\ resp' = Returned(calculatePayment(reqs.principal, reqs.annualRate,
                            reqs.compoundsPerYear, reqs.paymentsPerYear,
                            reqs.numberOfPayments))
    /\ UNCHANGED <<loans, now, reqs, paid, writes, rest>>

CallFrequencyDetails ==
    /\ reqs.fn = "getFrequencyDetails" /\ resp = NoResult
    /\ resp' = Returned(getFrequencyDetails(reqs.frequency))
    /\ UNCHANGED <<loans, now, reqs, paid, writes, rest>>

CalcNext ==
    \/ CallAdvanceDate
    \/ CallNumberOfPayments
    \/ CallAccruedInterest
    \/ CallPayment
    \/ CallFrequencyDetails

SpecCalc == CalcInit /\ [][CalcNext]_vars

\* the calendar, independently of advanceDate
MonthIndex(n) == GetFullYear(n) * 12 + GetMonth(n)

DaysInMonth(y, m) == MakeDate(y, m + 1, 1) - MakeDate(y, m, 1)

\* C15: advanceDate(date, m) for m in {1, 3, 6} is in the calendar month
\* exactly m months after the month of date, on day min(day of date, last day
\* of that month): 2024-01-31 plus 1 month is 2024-02-29 and one month more
\* is 2024-03-29; 2023-01-31 gives 2023-02-28 and then 2023-03-28.
C15_AdvanceClamps ==
    /\ resp.fn = "advanceDate" =>
          /\ MonthIndex(resp.value) = MonthIndex(reqs.date) + reqs.months
          /\ GetDate(resp.value) =
                Min(GetDate(reqs.date),
                    DaysInMonth(GetFullYear(resp.value), GetMonth(resp.value)))
    /\ (resp.fn = "advanceDate" /\ reqs.months = 1 /\ reqs.date = MakeDate(2024, 0, 31)) =>
          /\ resp.value = MakeDate(2024, 1, 29)
          /\ advanceDate(resp.value, 1) = MakeDate(2024, 2, 29)
    /\ (resp.fn = "advanceDate" /\ reqs.months = 1 /\ reqs.date = MakeDate(2023, 0, 31)) =>
          /\ resp.value = MakeDate(2023, 1, 28)
          /\ advanceDate(resp.value, 1) = MakeDate(2023, 2, 28)

\* 2023-01-31 was advanced by a month to 2023-02-28
C15_Witness ==
    /\ resp.fn = "advanceDate" /\ reqs.months = 1
    /\ reqs.date = MakeDate(2023, 0, 31)
    /\ resp.value = MakeDate(2023, 1, 28)

-----------------------------------------------------------------------------
(* Further properties of SpecPay.                                          *)

-----------------------------------------------------------------------------
(* Error responses in Spec.                                                *)

\* C14: a request that is answered with an error (validation, not found,
\* already closed, payment too large, or a save() refused by the schema) leaves
\* every stored loan as it was before the request.
C14_ErrorsLeaveStateUnchanged ==
    [][resp'.code \notin {"ok", "none"} => loans' = loans]_vars

\* a payoff was answered with a server error and the loan is still active
C14_Witness ==
    /\ resp.op = "payoff" /\ resp.code = "ServerError"
    /\ resp.id \in DOMAIN loans
    /\ loans[resp.id].status = "active"
    /\ loans[resp.id].remainingBalance > 0

-----------------------------------------------------------------------------
(* Properties of SpecCalc.                                                 *)

\* the date m calendar months after date, on the same day of the month or the
\* last day of a shorter month
AddMonths(date, m) ==
    MakeDate((MonthIndex(date) + m) \div 12, (MonthIndex(date) + m) % 12,
             Min(GetDate(date),
                 DaysInMonth((MonthIndex(date) + m) \div 12, (MonthIndex(date) + m) % 12)))

\* the number of whole months from startDate to endDate
WholeMonths(startDate, endDate) ==
    CHOOSE m \in 0 .. 36 :
        AddMonths(startDate, m) <= endDate /\ AddMonths(startDate, m + 1) > endDate

\* the months of one period of a recognized cadence
CadenceMonths(cadence) ==
    CASE cadence = "monthly" -> 1 [] cadence = "quarterly" -> 3 [] cadence = "half-yearly" -> 6

\* C16: for endDate > startDate, calculateNumberOfPayments returns
\* max(1, floor(M / k)), M the number of whole months between the dates and k
\* the months of the cadence (1, 3, 6); the result is >= 1; a cadence that is
\* not recognized raises an error.
C16_CountPayments ==
    resp.fn = "calculateNumberOfPayments" =>
        IF reqs.paymentFrequency \in Frequencies
        THEN /\ resp.value >= 1
             /\ resp.value =
                   Max(1, WholeMonths(reqs.startDate, reqs.endDate)
                              \div CadenceMonths(reqs.paymentFrequency))
        ELSE resp.value = 0

\* C17: calculateAccruedInterest returns exactly 0 when the annual rate is 0
\* or toDate <= fromDate (so also for toDate = fromDate), for every principal
\* and cadence, and never returns a negative amount for a non-negative
\* principal and rate.
C17_AccruedInterestZero ==
    resp.fn = "calculateAccruedInterest" =>
        /\ (reqs.annualRate = 0 \/ reqs.toDate <= reqs.fromDate) => resp.value = 0
        /\ (reqs.principal >= 0 /\ reqs.annualRate >= 0) => resp.value >= 0

\* interest at 100% on 10.00 from a day to an earlier day came to 0
C17_Witness ==
    /\ resp.fn = "calculateAccruedInterest"
    /\ reqs.annualRate = 100 /\ reqs.principal = 1000
    /\ reqs.toDate < reqs.fromDate
    /\ resp.value = 0

\* C18: calculatePayment with an annual rate of 0 returns exactly
\* principal / numberOfPayments, for every compounding cadence, payment cadence
\* and numberOfPayments >= 1; the annuity formula, which would divide by a
\* zero rate, is not evaluated.
C18_ZeroRatePayment ==
    (resp.fn = "calculatePayment" /\ reqs.annualRate = 0) =>
        /\ resp.value.den # 0
        /\ resp.value.num * reqs.numberOfPayments = reqs.principal * resp.value.den

\* 10.00 at 0% over 7 payments gave 10.00 / 7, which is not a whole number of
\* cents
C18_Witness ==
    /\ resp.fn = "calculatePayment" /\ reqs.annualRate = 0
    /\ reqs.principal = 1000 /\ reqs.numberOfPayments = 7
    /\ resp.value = [num |-> 1000, den |-> 7]

\* C19: getFrequencyDetails maps monthly to 12, quarterly to 4 and
\* half-yearly to 2 periods per year and throws for every other cadence name;
\* an operation that calls it with such a name does not complete.
C19_FrequencyDetails ==
    resp.fn = "getFrequencyDetails" =>
        /\ reqs.frequency = "monthly" => (resp.value.ok /\ resp.value.periodsPerYear = 12)
        /\ reqs.frequency = "quarterly" => (resp.value.ok /\ resp.value.periodsPerYear = 4)
        /\ reqs.frequency = "half-yearly" => (resp.value.ok /\ resp.value.periodsPerYear = 2)
        /\ reqs.frequency \notin Frequencies =>
              /\ ~ resp.value.ok
              /\ \A body \in LoanBodies :
                    /\ HelperThrows([body EXCEPT !.compoundingFrequency = reqs.frequency])
                    /\ createLoan([body EXCEPT !.compoundingFrequency = reqs.frequency]).code
                          # "ok"

\* the lookup of a cadence named weekly threw
C19_Witness ==
    /\ resp.fn = "getFrequencyDetails"
    /\ reqs.frequency = "weekly"
    /\ ~ resp.value.ok

-----------------------------------------------------------------------------
(* Successive payments in SpecPay.                                         *)

\* C20: when an accepted applyPayment dated d1, not before the start of the
\* loan, is followed by an accepted applyPayment dated d2 > d1 on the same loan, the second accrues interest
\* from d1, the lastPaymentDate the first one wrote, to d2: the balance it
\* persists is the one computed from a loan whose lastPaymentDate is d1.
C20_AccruedSincePreviousPayment ==
    [][\A id \in DOMAIN loans :
          ( /\ resp.op = "applyPayment" /\ resp.code = "ok" /\ resp.id = id
            /\ resp'.op = "applyPayment" /\ resp'.code = "ok" /\ resp'.id = id
            /\ resp.lastPaymentDate >= loans[id].startDate
            /\ PaymentDateTime(reqs'.body, now) > resp.lastPaymentDate ) =>
              LET expected ==
                      applyPayment([Hydrate(loans[id]) EXCEPT
                                       !.lastPaymentDate = resp.lastPaymentDate],
                                   reqs'.body, now)
              IN  /\ expected.code = "ok"
                  /\ loans'[id].remainingBalance = expected.doc.remainingBalance
                  /\ loans'[id].status = expected.doc.status]_vars

-----------------------------------------------------------------------------
(* The allocation of a payment, in SpecPay.                                *)

\* the interest applyPayment finds accrued on the loan for the request
AccruedFor(stored, body, clock) ==
    calculateAccruedInterest(stored.remainingBalance, stored.interestRate,
                             LastPaymentDate(Hydrate(stored)),
                             PaymentDateTime(body, clock), stored.compoundingFrequency)

\* C21: an accepted applyPayment allocates interest first: interestPaid =
\* min(accruedInterest, paymentAmount), principalPaid = paymentAmount -
\* interestPaid; both are >= 0 and sum to the payment, and principal is repaid
\* only when the accrued interest is covered in full.
C21_InterestFirst ==
    [][\A id \in DOMAIN loans :
          (resp'.op = "applyPayment" /\ resp'.id = id /\ resp'.code = "ok") =>
              LET accruedInterest == AccruedFor(loans[id], reqs'.body, now)
                  paymentAmount == reqs'.body.paymentAmount
              IN  /\ resp'.interest = Min(accruedInterest, paymentAmount)
                  /\ resp'.principalPaid = paymentAmount - resp'.interest
                  /\ resp'.interest >= 0 /\ resp'.principalPaid >= 0
                  /\ resp'.interest + resp'.principalPaid = paymentAmount
                  /\ resp'.principalPaid > 0 => resp'.interest = accruedInterest
                  /\ loans'[id].remainingBalance < loans[id].remainingBalance =>
                        resp'.interest = accruedInterest]_vars

\* a payment was split into a part for interest and a part for principal
C21_Witness ==
    /\ resp.op = "applyPayment" /\ resp.code = "ok"
    /\ resp.interest > 0 /\ resp.principalPaid > 0

\* C22: after an accepted applyPayment the new remainingBalance is
\* max(0, old remainingBalance - principalPaid); when that is <= 0.01 the loan
\* is stored with remainingBalance 0 and status closed, otherwise it stays
\* active with a remainingBalance > 0.01.
C22_ClosesAtThreshold ==
    [][\A id \in DOMAIN loans :
          (resp'.op = "applyPayment" /\ resp'.id = id /\ resp'.code = "ok") =>
              LET remaining == Max(0, loans[id].remainingBalance - resp'.principalPaid)
              IN  IF remaining <= 1
                  THEN /\ loans'[id].remainingBalance = 0
                       /\ loans'[id].status = "closed"
                  ELSE /\ loans'[id].remainingBalance = remaining
                       /\ loans'[id].remainingBalance > 1
                       /\ loans'[id].status = "active"]_vars

\* a payment one cent short of the principal of an interest-free loan closed it
C22_Witness ==
    /\ resp.op = "applyPayment" /\ resp.code = "ok"
    /\ loans[resp.id].interestRate = 0
    /\ reqs.body.paymentAmount = loans[resp.id].amount - 1
    /\ loans[resp.id].amountPaid = loans[resp.id].amount - 1
    /\ loans[resp.id].remainingBalance = 0
    /\ loans[resp.id].status = "closed"

-----------------------------------------------------------------------------
(* Notifications and the loan reminder scan.                               *)

Users == {"U1", "U2"}

RemindIds == {"L1", "L2"}

\* the enum of notificationSchema.type
NotificationTypes == {"budget_overrun", "loan_payment", "recurring_expense"}

\* the validators of notificationSchema that a document built by the scan can fail
ValidNotification(n) == n.type \in NotificationTypes

\* what Loan.find returns of a stored loan, as far as the scan reads it
Snapshot(collection, id) ==
    [id |-> id, userId |-> owner[id], status |-> collection[id].status,
     nextDueDate |-> collection[id].nextDueDate]

\* Loan.find({ status: "active", nextDueDate: { $lt: now } })
overdueLoans(collection, clock) ==
    {Snapshot(collection, id) : id \in
        {i \in DOMAIN collection :
            /\ collection[i].status = "active"
            /\ collection[i].nextDueDate # NoDate
            /\ collection[i].nextDueDate < clock}}

\* Loan.find({ status: "active", nextDueDate: { $gte: now, $lte: upcomingWindow } })
upcomingLoans(collection, clock) ==
    {Snapshot(collection, id) : id \in
        {i \in DOMAIN collection :
            /\ collection[i].status = "active"
            /\ collection[i].nextDueDate # NoDate
            /\ collection[i].nextDueDate >= clock
            /\ collection[i].nextDueDate <= clock + 3}}

\* Math.floor((now - loan.nextDueDate) / (24 * 60 * 60 * 1000))
daysOverdue(loan, clock) == clock - loan.nextDueDate

\* the overdue loans of the snapshot that have reached a multiple of 7 days
DueWeekly(snapshot, clock) == {loan \in snapshot : daysOverdue(loan, clock) % 7 = 0}

\* Notification.findOne for an unread overdue notice of the same number of days
existingOverdueNotification(stored, loan, clock) ==
    {n \in BagToSet(stored) :
        /\ n.userId = loan.userId
        /\ n.type = "loan_payment_overdue"
        /\ n.relatedId = loan.id
        /\ ~ n.read
        /\ n.daysOverdue = daysOverdue(loan, clock)}

\* a scan that never finds a reminder already stored
existingUpcomingNone(stored, loan) == {}

\* Notification.findOne for an unread reminder of the same loan and due date
existingUpcomingNotification(stored, loan) ==
    {n \in BagToSet(stored) :
        /\ n.userId = loan.userId
        /\ n.type = "loan_payment"
        /\ n.relatedId = loan.id
        /\ ~ n.read
        /\ n.dueDate = loan.nextDueDate}

\* new Notification({ type: "loan_payment_overdue", ... }); priority is not a
\* path of notificationSchema
overdueNotification(loan, clock) ==
    [userId |-> loan.userId, type |-> "loan_payment_overdue", relatedId |-> loan.id,
     read |-> FALSE, dueDate |-> loan.nextDueDate,
     daysOverdue |-> daysOverdue(loan, clock)]

\* new Notification({ type: "loan_payment", ... })
upcomingNotification(loan) ==
    [userId |-> loan.userId, type |-> "loan_payment", relatedId |-> loan.id,
     read |-> FALSE, dueDate |-> loan.nextDueDate]

\* the overdue loans of the snapshot for which the scan builds a notification
OverdueToNotify(stored, snapshot, clock) ==
    {loan \in DueWeekly(snapshot, clock) :
        existingOverdueNotification(stored, loan, clock) = {}}

\* the upcoming loans of the snapshot for which the scan builds a notification
UpcomingToNotify(stored, snapshot) ==
    {loan \in snapshot : existingUpcomingNotification(stored, loan) = {}}

\* Notification.deleteMany: the collection without the documents of the set
deleteMany(stored, matching) ==
    [n \in BagToSet(stored) \ matching |-> stored[n]]

\* the body of cron.schedule("0 0 * * *") run without interruption: the
\* notification.save() that fails its validation throws into the one catch
\* around both loops
reminderScan(collection, stored, clock) ==
    LET overdue == OverdueToNotify(stored, overdueLoans(collection, clock), clock)
    IN  IF \E loan \in overdue : ~ ValidNotification(overdueNotification(loan, clock))
        THEN [code |-> "ScanError", notifications |-> stored]
        ELSE
          LET afterOverdue ==
                  stored (+) SetToBag({overdueNotification(loan, clock) : loan \in overdue})
              upcoming == UpcomingToNotify(afterOverdue, upcomingLoans(collection, clock))
          IN  [code |-> "ok",
               notifications |->
                   afterOverdue (+) SetToBag({upcomingNotification(loan) : loan \in upcoming})]

-----------------------------------------------------------------------------
(* SpecRemind: two users, their loans, the notifications and the reminder  *)
(* scan, each handler and each scan run without interruption.              *)

\* 2024-01-31, 2024-02-27 and 2024-05-30
RemindDates == {MakeDate(2024, 0, 31), MakeDate(2024, 1, 27), MakeDate(2024, 4, 30)}

\* the bodies of POST /: 10.00 without interest until 2024-08-31, paid monthly
\* from 2024-01-31 or quarterly from 2024-03-01
RemindBodies ==
    {body \in LoanBodies :
        /\ body.amount = 1000 /\ body.interestRate = 0
        /\ body.endDate = MakeDate(2024, 7, 31)
        /\ body.status = "active"
        /\ \/ body.paymentFrequency = "monthly" /\ body.startDate = MakeDate(2024, 0, 31)
           \/ body.paymentFrequency = "quarterly" /\ body.startDate = MakeDate(2024, 2, 1)}

\* the saves of loan documents followed in one run of SpecRemind and SpecScan
RemindWrites == MaxWrites - 1

\* the bodies of POST /:id/payment: the periodic payment or the whole balance, today
RemindPayments(stored) ==
    [paymentAmount : {stored.paymentAmount, stored.remainingBalance},
     paymentDate : {NoDate}]

\* the bodies of PUT /:id: the stored terms with a quarterly cadence, or closed
RemindEdits(stored) ==
    {[Terms(stored) EXCEPT !.paymentFrequency = "quarterly"],
     [Terms(stored) EXCEPT !.status = "closed"]}

\* reminders are no longer marked read once this many read copies of one are stored
MaxRead == 1

NoScan == [pc |-> "idle", clock |-> NoDate, todo |-> {}, cur |-> {}]

RemindResponse(op, user, id, code, list) ==
    [op |-> op, user |-> user, id |-> id, code |-> code, list |-> list]

\* a lookup by _id alone
findById(id, userId) == id \in DOMAIN loans

\* Loan.findOne({ _id: id, userId }) finds a document
findOne(id, userId) == id \in DOMAIN loans /\ owner[id] = userId

\* Loan.find({ userId })
find(userId) == {id \in DOMAIN loans : owner[id] = userId}

\* the documents matched by { userId, type: "loan_payment", relatedId }
LoanReminders(userId, id) ==
    {n \in BagToSet(notifications) :
        n.userId = userId /\ n.type = "loan_payment" /\ n.relatedId = id}

RemindInit ==
    /\ loans = <<>>
    /\ now = MakeDate(2024, 0, 31)
    /\ resp = RemindResponse("none", "none", "none", "none", {})
    /\ reqs = NoScan
    /\ paid = <<>>
    /\ writes = 0
    /\ owner = <<>>
    /\ notifications = EmptyBag
    /\ expenses = <<>>
    /\ budgets = <<>>

\* the clock moves on to a later day
RemindTick ==
    /\ \E d \in RemindDates : d > now /\ now' = d
    /\ UNCHANGED <<loans, resp, reqs, paid, writes, rest>>

\* POST / by one of the users; a loan id is never issued twice, and L1 is
\* issued first, to U1
RemindCreateLoan ==
    \E user \in Users, id \in RemindIds, body \in RemindBodies :
        LET out == createLoan(body)
        IN  /\ id \notin DOMAIN owner
            /\ id = "L2" => "L1" \in DOMAIN owner
            /\ id = "L1" => user = "U1"
            /\ out.code = "ok" => writes < RemindWrites
            /\ loans' = IF out.code = "ok" THEN loans @@ (id :> Strict(out.doc)) ELSE loans
            /\ owner' = IF out.code = "ok" THEN owner @@ (id :> user) ELSE owner
            /\ writes' = IF out.code = "ok" THEN writes + 1 ELSE writes
            /\ resp' = RemindResponse("createLoan", user, id, out.code, {})
            /\ UNCHANGED <<now, reqs, paid, notifications, expenses, budgets>>

\* GET /
RemindList ==
    \E user \in Users :
        /\ resp' = RemindResponse("list", user, "none", "ok", find(user))
        /\ UNCHANGED <<loans, now, reqs, paid, writes, rest>>

\* POST /:id/payment
RemindApplyPayment ==
    \E user \in Users, id \in RemindIds :
        IF ~ findOne(id, user)
        THEN /\ resp' = RemindResponse("applyPayment", user, id, "NotFound", {})
             /\ UNCHANGED <<loans, now, reqs, paid, writes, rest>>
        ELSE \E body \in RemindPayments(loans[id]) :
               LET loan == Hydrate(loans[id])
                   out == applyPayment(loan, body, now)
               IN  /\ out.code = "ok" => writes < RemindWrites
                   /\ loans' = Committed(id, loan, out)
                   /\ writes' = IF out.code = "ok" THEN writes + 1 ELSE writes
                   /\ resp' = RemindResponse("applyPayment", user, id, out.code, {})
                   /\ UNCHANGED <<now, reqs, paid, rest>>

\* PUT /:id
RemindReviseLoan ==
    \E user \in Users, id \in RemindIds :
        IF ~ findOne(id, user)
        THEN /\ resp' = RemindResponse("reviseLoan", user, id, "NotFound", {})
             /\ UNCHANGED <<loans, now, reqs, paid, writes, rest>>
        ELSE \E body \in RemindEdits(loans[id]) :
               LET loan == Hydrate(loans[id])
                   out == reviseLoan(loan, body, now)
               IN  /\ out.code = "ok" => writes < RemindWrites
                   /\ loans' = Committed(id, loan, out)
                   /\ writes' = IF out.code = "ok" THEN writes + 1 ELSE writes
                   /\ resp' = RemindResponse("reviseLoan", user, id, out.code, {})
                   /\ UNCHANGED <<now, reqs, paid, rest>>

\* POST /:id/payoff: the save, then Notification.deleteMany of the unread
\* reminders, which the database can fail
RemindPayoff ==
    \E user \in Users, id \in RemindIds, cleanupFails \in BOOLEAN :
        IF ~ findOne(id, user)
        THEN /\ resp' = RemindResponse("payoff", user, id, "NotFound", {})
             /\ UNCHANGED <<loans, now, reqs, paid, writes, rest>>
        ELSE LET loan == Hydrate(loans[id])
                 saved == payoff(loan, now)
                 cleaned == saved.code = "ok" /\ ~ cleanupFails
             IN  /\ saved.code = "ok" => writes < RemindWrites
                 /\ loans' = Committed(id, loan, saved)
                 /\ writes' = IF saved.code = "ok" THEN writes + 1 ELSE writes
                 /\ notifications' =
                        IF cleaned
                        THEN deleteMany(notifications,
                                        {n \in LoanReminders(user, id) : ~ n.read})
                        ELSE notifications
                 /\ resp' = RemindResponse("payoff", user, id,
                                IF saved.code = "ok" /\ cleanupFails
                                THEN "ServerError" ELSE saved.code, {})
                 /\ UNCHANGED <<now, reqs, paid, owner, expenses, budgets>>

\* DELETE /:id: Loan.deleteOne, then Notification.deleteMany, which the
\* database can fail
RemindDelete ==
    \E user \in Users, id \in RemindIds, cleanupFails \in BOOLEAN :
        IF ~ findOne(id, user)
        THEN /\ resp' = RemindResponse("delete", user, id, "NotFound", {})
             /\ UNCHANGED <<loans, now, reqs, paid, writes, rest>>
        ELSE /\ loans' = [i \in DOMAIN loans \ {id} |-> loans[i]]
             /\ notifications' =
                    IF cleanupFails THEN notifications
                    ELSE deleteMany(notifications, LoanReminders(user, id))
             /\ resp' = RemindResponse("delete", user, id,
                            IF cleanupFails THEN "ServerError" ELSE "ok", {})
             /\ UNCHANGED <<now, reqs, paid, writes, owner, expenses, budgets>>

\* PUT /:id/read of the notifications router
MarkRead ==
    \E user \in Users, n \in BagToSet(notifications) :
        LET seen == [n EXCEPT !.read = TRUE]
        IN  /\ n.userId = user /\ ~ n.read
            /\ CopiesIn(seen, notifications) < MaxRead
            /\ notifications' = (notifications (-) SetToBag({n})) (+) SetToBag({seen})
            /\ resp' = RemindResponse("markRead", user, n.relatedId, "ok", {})
            /\ UNCHANGED <<loans, now, reqs, paid, writes, owner, expenses, budgets>>

\* one run of the reminder scan
RemindScan ==
    LET out == reminderScan(loans, notifications, now)
    IN  /\ notifications' = out.notifications
        /\ resp' = RemindResponse("scan", "none", "none", out.code, {})
        /\ UNCHANGED <<loans, now, reqs, paid, writes, owner, expenses, budgets>>

RemindNext ==
    \/ RemindTick \/ RemindCreateLoan \/ RemindList \/ RemindApplyPayment
    \/ RemindReviseLoan \/ RemindPayoff \/ RemindDelete \/ MarkRead \/ RemindScan

SpecRemind == RemindInit /\ [][RemindNext]_vars

\* the unread loan_payment reminders stored for a loan id
UnreadReminders(id) ==
    {n \in BagToSet(notifications) :
        n.type = "loan_payment" /\ n.relatedId = id /\ ~ n.read}

\* C23: once applyPayment (at the 0.01 threshold) or payoff has closed a loan,
\* no unread loan_payment reminder tied to that loan remains stored.
C23_ClosingClearsReminders ==
    [][\A id \in DOMAIN loans :
          (/\ resp'.op \in {"applyPayment", "payoff"} /\ resp'.id = id
           /\ resp'.code = "ok"
           /\ loans[id].status = "active" /\ loans'[id].status = "closed") =>
              UnreadReminders(id)' = {}]_vars

\* C27: every run of the reminder scan leaves an unread loan_payment reminder
\* for each active loan whose nextDueDate lies between now and now + 3 days,
\* whichever other loans are overdue at that time.
C27_UpcomingAlwaysReminded ==
    [][RemindScan =>
          \A id \in DOMAIN loans :
              (/\ loans[id].status = "active"
               /\ loans[id].nextDueDate >= now
               /\ loans[id].nextDueDate <= now + 3) =>
                  \E n \in UnreadReminders(id)' : n.dueDate = loans[id].nextDueDate]_vars

\* C28: reviseLoan, applyPayment, payoff and delete requested by a user on a
\* loan that another user owns are answered not found and leave the loan and
\* the notifications unchanged; listing returns exactly the loans of the user.
C28_OwnerIsolation ==
    [][/\ \A id \in DOMAIN loans :
            (/\ resp'.op \in {"reviseLoan", "applyPayment", "payoff", "delete"}
             /\ resp'.id = id /\ resp'.user # owner[id]) =>
                /\ resp'.code = "NotFound"
                /\ loans' = loans
                /\ notifications' = notifications
       /\ resp'.op = "list" =>
            /\ resp'.list = {id \in DOMAIN loans : owner[id] = resp'.user}
            /\ loans' = loans]_vars

\* a user asked to delete the loan of another user, which has an unread reminder
C28_Witness ==
    /\ resp.op = "delete" /\ resp.code = "NotFound"
    /\ resp.id \in DOMAIN loans /\ owner[resp.id] # resp.user
    /\ UnreadReminders(resp.id) # {}

-----------------------------------------------------------------------------
(* SpecScan: the reminder scan taken one await at a time, with the         *)
(* requests that create, pay, edit and pay off loans and mark reminders    *)
(* read handled between its steps.  reqs holds the scan: the clock it      *)
(* read, the loans of its last find still to handle, and the loan it is    *)
(* about to save a reminder for.                                           *)

\* the scan starts: new Date(), then the find of the overdue loans
ScanStart ==
    /\ reqs.pc = "idle"
    /\ reqs' = [pc |-> "overdue", clock |-> now,
                todo |-> overdueLoans(loans, now), cur |-> {}]
    /\ UNCHANGED <<loans, now, resp, paid, writes, rest>>

\* one pass of the first loop: the findOne and, if it finds nothing, the save
\* of the overdue notice, which throws into the catch when it is not valid
ScanOverdue ==
    /\ reqs.pc = "overdue"
    /\ \E loan \in reqs.todo :
        LET notice == overdueNotification(loan, reqs.clock)
        IN  IF loan \notin OverdueToNotify(notifications, {loan}, reqs.clock)
            THEN /\ reqs' = [reqs EXCEPT !.todo = @ \ {loan}]
                 /\ UNCHANGED <<resp, notifications>>
            ELSE IF ValidNotification(notice)
            THEN /\ reqs' = [reqs EXCEPT !.todo = @ \ {loan}]
                 /\ notifications' = notifications (+) SetToBag({notice})
                 /\ UNCHANGED resp
            ELSE /\ reqs' = NoScan
                 /\ resp' = RemindResponse("scan", "none", "none", "ScanError", {})
                 /\ UNCHANGED notifications
    /\ UNCHANGED <<loans, now, paid, writes, owner, expenses, budgets>>

\* after the first loop: the find of the upcoming loans
ScanFindUpcoming ==
    /\ reqs.pc = "overdue" /\ reqs.todo = {}
    /\ reqs' = [reqs EXCEPT !.pc = "upcoming", !.todo = upcomingLoans(loans, reqs.clock)]
    /\ UNCHANGED <<loans, now, resp, paid, writes, rest>>

\* one pass of the second loop as far as the findOne
ScanFindExisting ==
    /\ reqs.pc = "upcoming"
    /\ \E loan \in reqs.todo :
        reqs' = IF loan \in UpcomingToNotify(notifications, {loan})
                THEN [reqs EXCEPT !.pc = "save", !.todo = @ \ {loan}, !.cur = {loan}]
                ELSE [reqs EXCEPT !.todo = @ \ {loan}]
    /\ UNCHANGED <<loans, now, resp, paid, writes, rest>>

\* the save of the reminder built for the loan
ScanSave ==
    /\ reqs.pc = "save"
    /\ notifications' =
           notifications (+) SetToBag({upcomingNotification(loan) : loan \in reqs.cur})
    /\ reqs' = [reqs EXCEPT !.pc = "upcoming", !.cur = {}]
    /\ UNCHANGED <<loans, now, resp, paid, writes, owner, expenses, budgets>>

\* the second loop is over
ScanEnd ==
    /\ reqs.pc = "upcoming" /\ reqs.todo = {}
    /\ reqs' = NoScan
    /\ resp' = RemindResponse("scan", "none", "none", "ok", {})
    /\ UNCHANGED <<loans, now, paid, writes, rest>>

\* the clock reaches a later day between two runs of the scan
ScanTick == reqs.pc = "idle" /\ RemindTick

ScanNext ==
    \/ ScanTick \/ RemindCreateLoan \/ RemindApplyPayment \/ RemindReviseLoan
    \/ RemindPayoff \/ MarkRead
    \/ ScanStart \/ ScanOverdue \/ ScanFindUpcoming \/ ScanFindExisting
    \/ ScanSave \/ ScanEnd

SpecScan == RemindInit /\ [][ScanNext]_vars

\* the stored copies of the documents of a set
Copies(stored, docs) ==
    LET RECURSIVE Sum(_)
        Sum(rest_) == IF rest_ = {} THEN 0
                      ELSE LET n == CHOOSE n \in rest_ : TRUE
                           IN  CopiesIn(n, stored) + Sum(rest_ \ {n})
    IN  Sum(docs)

\* C24: the scan stores a reminder only for a loan that its snapshot shows as
\* active with nextDueDate within 3 days of the clock it read (or past); over
\* repeated runs at most one unread loan_payment reminder is stored per loan
\* and due date; and a run fails only because of a loan of its own snapshot,
\* whatever was paid, edited or paid off while it ran.
C24_ScanUsesSnapshot ==
    [][/\ \A n \in BagToSet(notifications') :
            (~ n.read /\ CopiesIn(n, notifications') > CopiesIn(n, notifications)) =>
                /\ reqs.pc = "save"
                /\ \E loan \in reqs.cur :
                      /\ n = upcomingNotification(loan)
                      /\ loan.status = "active"
                      /\ loan.nextDueDate >= reqs.clock
                      /\ loan.nextDueDate <= reqs.clock + 3
       /\ \A id \in RemindIds, d \in {n.dueDate : n \in BagToSet(notifications')} :
            Copies(notifications', {n \in UnreadReminders(id)' : n.dueDate = d}) <= 1
       /\ (reqs.pc # "idle" /\ resp'.code = "ScanError" /\ resp' # resp) =>
            \E loan \in reqs.todo :
                /\ loan.status = "active"
                /\ loan.nextDueDate < reqs.clock
                /\ daysOverdue(loan, reqs.clock) % 7 = 0]_vars

\* the scan is about to store a reminder for a loan that was closed or given
\* another due date after the scan read it
C24_Witness ==
    /\ reqs.pc = "save"
    /\ \E loan \in reqs.cur :
          \/ loans[loan.id].status = "closed"
          \/ loans[loan.id].nextDueDate # loan.nextDueDate

-----------------------------------------------------------------------------
(* Closed loans and edits that keep the principal, in Spec.                *)

\* C25: in every persisted loan state, whatever createLoan, applyPayment,
\* reviseLoan and payoff requests led to it, status closed implies
\* remainingBalance = 0.
C25_ClosedHasNoBalance ==
    \A id \in DOMAIN loans :
        loans[id].status = "closed" => loans[id].remainingBalance = 0

\* C26: a reviseLoan that leaves the principal unchanged leaves the loan's
\* remainingBalance and amountPaid as they were before the edit.
C26_EditKeepsProgress ==
    [][\A id \in DOMAIN loans :
          (/\ Handled(id, "reviseLoan") /\ resp'.code = "ok"
           /\ loans'[id].amount = loans[id].amount) =>
              /\ loans'[id].remainingBalance = loans[id].remainingBalance
              /\ loans'[id].amountPaid = loans[id].amountPaid]_vars

-----------------------------------------------------------------------------
(* SpecRecur: the recurring expenses of one user and the daily job of      *)
(* cron.js.  No budget is stored, so POST / of the expenses router finds   *)
(* none to check for an overrun.                                           *)

ExpenseFrequencies == {"daily", "weekly", "monthly", "yearly"}

NoFrequency == "null"

\* calculateNextOccurrence: setDate, setMonth and setFullYear carry an overflow
\* of the day of the month into the next month
calculateNextOccurrence(date, frequency) ==
    IF frequency = "daily" THEN date + 1
    ELSE IF frequency = "weekly" THEN date + 7
    ELSE IF frequency = "monthly" THEN SetMonth(date, GetMonth(date) + 1)
    ELSE IF frequency = "yearly"
    THEN MakeDate(GetFullYear(date) + 1, GetMonth(date), GetDate(date))
    ELSE NoDate

\* the bodies of POST / of the expenses router: dated 2024-01-30 or 2024-01-31,
\* once or repeated, without end or until 2024-02-02
ExpenseBodies ==
    [date : {MakeDate(2024, 0, 30), MakeDate(2024, 0, 31)},
     isRecurring : BOOLEAN,
     frequency : {"daily", "weekly", "monthly"},
     endDate : {NoDate, MakeDate(2024, 1, 2)}]

\* new Expense({ ... }) of POST /
createExpense(body) ==
    [date |-> body.date,
     isRecurring |-> body.isRecurring,
     frequency |-> IF body.isRecurring THEN body.frequency ELSE NoFrequency,
     nextOccurrence |->
         IF body.isRecurring THEN calculateNextOccurrence(body.date, body.frequency)
         ELSE NoDate,
     endDate |-> IF body.isRecurring THEN body.endDate ELSE NoDate]

\* Expense.find({ isRecurring: true, nextOccurrence: { $lte: tomorrow },
\*                $or: [{ endDate: null }, { endDate: { $gte: today } }] })
recurringExpenses(collection, today) ==
    {i \in DOMAIN collection :
        /\ collection[i].isRecurring
        /\ collection[i].nextOccurrence # NoDate
        /\ collection[i].nextOccurrence <= today + 1
        /\ \/ collection[i].endDate = NoDate
           \/ collection[i].endDate >= today}

\* the ids of a set in insertion order
InOrder(ids) ==
    LET RECURSIVE Sorted(_)
        Sorted(todo) ==
            IF todo = {} THEN <<>>
            ELSE LET least == CHOOSE i \in todo : \A j \in todo : i <= j
                 IN  <<least>> \o Sorted(todo \ {least})
    IN  Sorted(ids)

\* new Expense({ ... }) of the job
newExpense(expense) ==
    [date |-> expense.nextOccurrence,
     isRecurring |-> TRUE,
     frequency |-> expense.frequency,
     nextOccurrence |-> calculateNextOccurrence(expense.nextOccurrence, expense.frequency),
     endDate |-> expense.endDate]

\* the Expense collection after the loop of the job over the expenses found
processRecurring(collection, found) ==
    [i \in DOMAIN collection |->
        IF i \in found
        THEN [collection[i] EXCEPT !.nextOccurrence = newExpense(collection[i]).nextOccurrence]
        ELSE collection[i]]
    \o [k \in 1..Cardinality(found) |-> newExpense(collection[InOrder(found)[k]])]

\* Notification.create of the job, for the expenses due tomorrow
dueTomorrow(collection, found, today) ==
    {[userId |-> "U1", type |-> "recurring_expense", relatedId |-> i, read |-> FALSE] :
        i \in {j \in found : collection[j].nextOccurrence - 1 = today}}

\* the job no longer runs once this many expenses are stored
MaxExpenses == 4

\* 2024-03-10
LastDay == MakeDate(2024, 2, 10)

RecurResponse(op, processed) == [op |-> op, processed |-> processed]

RecurInit ==
    /\ loans = <<>>
    /\ now = MakeDate(2024, 0, 31)
    /\ resp = RecurResponse("none", 0)
    /\ reqs = <<>>
    /\ paid = <<>>
    /\ writes = 0
    /\ owner = <<>>
    /\ notifications = EmptyBag
    /\ expenses = <<>>
    /\ budgets = <<>>

\* POST / of the expenses router (one created expense is followed)
CreateExpense ==
    \E body \in ExpenseBodies :
        /\ expenses = <<>>
        /\ expenses' = <<createExpense(body)>>
        /\ resp' = RecurResponse("createExpense", 0)
        /\ UNCHANGED <<loans, now, reqs, paid, writes, owner, notifications, budgets>>

\* midnight: the day changes and cron.schedule("0 0 * * *") of cron.js runs
RecurringJob ==
    LET today == now + 1
        found == recurringExpenses(expenses, today)
    IN  /\ now < LastDay
        /\ Len(expenses) < MaxExpenses
        /\ now' = today
        /\ expenses' = processRecurring(expenses, found)
        /\ notifications' = notifications (+) SetToBag(dueTomorrow(expenses, found, today))
        /\ resp' = RecurResponse("job", Cardinality(found))
        /\ UNCHANGED <<loans, reqs, paid, writes, owner, budgets>>

RecurNext == CreateExpense \/ RecurringJob

SpecRecur == RecurInit /\ [][RecurNext]_vars

\* the expenses the job generated for an occurrence date of the created expense
Generated(date) == {i \in DOMAIN expenses : i > 1 /\ expenses[i].date = date}

\* C29: over successive runs of the daily job, the recurring expense that was
\* created yields one generated expense per occurrence date, and the job does
\* not process more records for it from run to run: one each time it is due.
C29_OnePerOccurrence ==
    /\ resp.op = "job" => resp.processed <= 1
    /\ \A i \in DOMAIN expenses : Cardinality(Generated(expenses[i].date)) <= 1

-----------------------------------------------------------------------------
(* SpecBudget: the budgets of two users, created and updated one request   *)
(* at a time.  A budget is followed by its userId, categoryId, startDate   *)
(* and endDate.                                                            *)

BudgetIds == {"B1", "B2"}

Categories == {"food", "rent"}

\* 2024-01-01, 2024-01-11, 2024-01-21 and 2024-01-31
BudgetDates ==
    {MakeDate(2024, 0, 1), MakeDate(2024, 0, 11), MakeDate(2024, 0, 21),
     MakeDate(2024, 0, 31)}

\* the bodies of POST / of the budgets router
BudgetBodies == [categoryId : Categories, startDate : BudgetDates, endDate : BudgetDates]

\* the bodies of PUT /:id: each date given or left out
BudgetUpdates == [startDate : BudgetDates \cup {NoDate}, endDate : BudgetDates \cup {NoDate}]

\* budgetValidation, as far as the dates go
budgetValidation(body) == body.endDate > body.startDate

\* budgetUpdateValidation, as far as the dates go
budgetUpdateValidation(body) ==
    (body.endDate # NoDate /\ body.startDate # NoDate) => body.endDate > body.startDate

\* Budget.findOne({ userId, categoryId, $or: [...] }) of POST /
existingBudget(userId, body) ==
    {id \in DOMAIN budgets :
        /\ budgets[id].userId = userId
        /\ budgets[id].categoryId = body.categoryId
        /\ \/ /\ budgets[id].startDate <= body.endDate
              /\ budgets[id].endDate >= body.startDate
           \/ /\ budgets[id].startDate >= body.startDate
              /\ budgets[id].startDate <= body.endDate}

BudgetResponse(op, id, code) == [op |-> op, id |-> id, code |-> code]

BudgetInit ==
    /\ loans = <<>>
    /\ now = MakeDate(2024, 0, 31)
    /\ resp = BudgetResponse("none", "none", "none")
    /\ reqs = <<>>
    /\ paid = <<>>
    /\ writes = 0
    /\ owner = <<>>
    /\ notifications = EmptyBag
    /\ expenses = <<>>
    /\ budgets = <<>>

\* POST / of the budgets router; B1 is the first id issued
CreateBudget ==
    \E user \in Users, id \in BudgetIds, body \in BudgetBodies :
        /\ id \notin DOMAIN budgets
        /\ id = "B2" => "B1" \in DOMAIN budgets
        /\ IF ~ budgetValidation(body)
           THEN /\ resp' = BudgetResponse("createBudget", id, "Invalid")
                /\ UNCHANGED budgets
           ELSE IF existingBudget(user, body) # {}
           THEN /\ resp' = BudgetResponse("createBudget", id, "Exists")
                /\ UNCHANGED budgets
           ELSE /\ budgets' = budgets @@
                        (id :> [userId |-> user, categoryId |-> body.categoryId,
                                startDate |-> body.startDate, endDate |-> body.endDate])
                /\ resp' = BudgetResponse("createBudget", id, "ok")
        /\ UNCHANGED <<loans, now, reqs, paid, writes, owner, notifications, expenses>>

\* PUT /:id of the budgets router
UpdateBudget ==
    \E user \in Users, id \in BudgetIds, body \in BudgetUpdates :
        /\ IF ~ budgetUpdateValidation(body)
           THEN /\ resp' = BudgetResponse("updateBudget", id, "Invalid")
                /\ UNCHANGED budgets
           ELSE IF ~ (id \in DOMAIN budgets /\ budgets[id].userId = user)
           THEN /\ resp' = BudgetResponse("updateBudget", id, "NotFound")
                /\ UNCHANGED budgets
           ELSE /\ budgets' =
                      [budgets EXCEPT
                          ![id].startDate =
                              IF body.startDate # NoDate THEN body.startDate ELSE @,
                          ![id].endDate =
                              IF body.endDate # NoDate THEN body.endDate ELSE @]
                /\ resp' = BudgetResponse("updateBudget", id, "ok")
        /\ UNCHANGED <<loans, now, reqs, paid, writes, owner, notifications, expenses>>

BudgetNext == CreateBudget \/ UpdateBudget

SpecBudget == BudgetInit /\ [][BudgetNext]_vars

\* two date ranges, each from a start to a later end, that share a day
Overlapping(a, b) ==
    /\ a.startDate <= a.endDate /\ b.startDate <= b.endDate
    /\ a.startDate <= b.endDate /\ b.startDate <= a.endDate

\* C30: after any sequence of budget create and update requests, no two budgets
\* of the same user and the same category have overlapping [startDate, endDate]
\* ranges.
C30_NoOverlappingBudgets ==
    \A a, b \in DOMAIN budgets :
        (/\ a # b
         /\ budgets[a].userId = budgets[b].userId
         /\ budgets[a].categoryId = budgets[b].categoryId) =>
            ~ Overlapping(budgets[a], budgets[b])

====
